---- MODULE Spec2Model ----
(***************************************************************************)
(* Model of the transcript segmenter (backend/segmenter.py), of the        *)
(* lecture metrics analyzer (backend/metrics_analyzer.py), and of two      *)
(* handlers of the REST backend (backend/api.py): the lecture analysis     *)
(* with its background task, and the class overview.                       *)
(*                                                                         *)
(* Times are integers (ticks).  A text is a sequence of one-character      *)
(* strings, so that join, strip, split and the word regexes are computed   *)
(* as the code computes them.  A Python float quotient a / b is the exact  *)
(* fraction, kept as a record [num, den] in lowest terms; a square root is *)
(* kept symbolic.  The rounding of binary floating point is not modelled:  *)
(* a comparison of a computed float with a threshold it equals exactly in  *)
(* the rationals can come out differently in Python.                       *)
(***************************************************************************)
EXTENDS Integers, Sequences, FiniteSets, TLC

VARIABLES transcript, max_len, pause_thresh, pc, sorted_t, i, current,
          segments, runs, reported, advised, exited, detected,
          lecture, tasks, overview

vars == <<transcript, max_len, pause_thresh, pc, sorted_t, i, current,
          segments, runs, reported, advised, exited, detected,
          lecture, tasks, overview>>

segmenter_vars == <<transcript, max_len, pause_thresh, sorted_t, i, current,
                    segments, runs>>

analyzer_vars == <<reported, advised, exited, detected>>

api_vars == <<lecture, tasks, overview>>

(***************************************************************************)
(* Bounds of the model.                                                    *)
(***************************************************************************)
MaxWords == 3
MaxTime == 2

MaxLens == {1, 2}
PauseThreshs == {1, 2}

(***************************************************************************)
(* Inputs: the words of a transcript.  Every interval carries a word with  *)
(* a confidence; an interval of length 0 also carries a word without the   *)
(* optional "conf" key whose text starts with a blank, as the recogniser's *)
(* word tokens do.                                                         *)
(***************************************************************************)
\* the word confidences are given in tenths
ConfScale == 10

Intervals == {iv \in (0..MaxTime) \X (0..MaxTime) : iv[1] <= iv[2]}

WordsOn(iv) ==
    {[start |-> iv[1], end |-> iv[2], text |-> <<"a">>, conf |-> 9]}
    \cup (IF iv[1] = iv[2]
          THEN {[start |-> iv[1], end |-> iv[2], text |-> <<" ", "b">>]}
          ELSE {})

InputWords == UNION {WordsOn(iv) : iv \in Intervals}

Transcripts == UNION {[1..n -> InputWords] : n \in 0..MaxWords}

\* the inputs of the analyzer runs: the words of positive length carry a
\* confidence, the words of length 0 do not
AnalyzerWords ==
    {w \in InputWords : "conf" \in DOMAIN w <=> w.start < w.end}

AnalyzerTranscripts == UNION {[1..n -> AnalyzerWords] : n \in 0..MaxWords}

(***************************************************************************)
(* Generic helpers.                                                        *)
(***************************************************************************)
\* dict.get(key, default)
Get(r, k, d) == IF k \in DOMAIN r THEN r[k] ELSE d

RECURSIVE Gcd(_, _)
Gcd(a, b) == IF b = 0 THEN a ELSE Gcd(b, a % b)

Abs(x) == IF x < 0 THEN -x ELSE x

\* the quotient n / d (d # 0) in lowest terms with a positive denominator
Rat(n, d) ==
    LET g == Gcd(Abs(n), Abs(d))
        s == IF d < 0 THEN -1 ELSE 1
    IN  [num |-> (s * n) \div g, den |-> (s * d) \div g]

Zero == [num |-> 0, den |-> 1]

One == [num |-> 1, den |-> 1]

\* an int as a fraction
Whole(n) == [num |-> n, den |-> 1]

RatLess(x, y) == x.num * y.den < y.num * x.den
RatLeq(x, y) == x.num * y.den <= y.num * x.den
RatAdd(x, y) == Rat(x.num * y.den + y.num * x.den, x.den * y.den)
RatSub(x, y) == Rat(x.num * y.den - y.num * x.den, x.den * y.den)
RatMul(x, y) == Rat(x.num * y.num, x.den * y.den)
\* x / y for y # 0
RatDiv(x, y) == Rat(x.num * y.den, x.den * y.num)
RatAbs(x) == [num |-> Abs(x.num), den |-> x.den]
RatMax(x, y) == IF RatLess(x, y) THEN y ELSE x

\* math.sqrt(r), kept symbolic
Sqrt(r) == [sqrt_of |-> r]

\* 1 - math.sqrt(r), kept symbolic
OneMinusSqrt(r) == [one_minus_sqrt_of |-> r]

RECURSIVE SumSeq(_)
SumSeq(s) == IF s = << >> THEN 0 ELSE Head(s) + SumSeq(Tail(s))

RECURSIVE Flatten(_)
Flatten(ss) == IF ss = << >> THEN << >> ELSE Head(ss) \o Flatten(Tail(ss))

(***************************************************************************)
(* Text primitives.                                                        *)
(***************************************************************************)
IsSpace(c) == c = " "

LowerCase ==
    <<"a", "b", "c", "d", "e", "f", "g", "h", "i", "j", "k", "l", "m",
      "n", "o", "p", "q", "r", "s", "t", "u", "v", "w", "x", "y", "z">>

UpperCase ==
    <<"A", "B", "C", "D", "E", "F", "G", "H", "I", "J", "K", "L", "M",
      "N", "O", "P", "Q", "R", "S", "T", "U", "V", "W", "X", "Y", "Z">>

Letters == {LowerCase[k] : k \in 1..26} \cup {UpperCase[k] : k \in 1..26}

WordChars ==
    Letters \cup {"0", "1", "2", "3", "4", "5", "6", "7", "8", "9", "_"}

\* the characters matched by \w
IsWordChar(c) == c \in WordChars

LowerOf ==
    [c \in {UpperCase[k] : k \in 1..26} |->
        LowerCase[CHOOSE k \in 1..26 : c = UpperCase[k]]]

\* str.lower() on one character
LowerChar(c) == IF c \in DOMAIN LowerOf THEN LowerOf[c] ELSE c

Lower(text) == [k \in 1..Len(text) |-> LowerChar(text[k])]

RECURSIVE LStrip(_)
LStrip(text) ==
    IF text # << >> /\ IsSpace(Head(text)) THEN LStrip(Tail(text)) ELSE text

RECURSIVE RStrip(_)
RStrip(text) ==
    IF text # << >> /\ IsSpace(text[Len(text)])
    THEN RStrip(SubSeq(text, 1, Len(text) - 1))
    ELSE text

\* str.strip()
Strip(text) == RStrip(LStrip(text))

\* " ".join(texts)
RECURSIVE JoinSpace(_)
JoinSpace(texts) ==
    IF texts = << >> THEN << >>
    ELSE IF Len(texts) = 1 THEN texts[1]
    ELSE texts[1] \o <<" ">> \o JoinSpace(Tail(texts))

\* the maximal runs of characters satisfying Keep, in order
\* (Keep is given as the set of kept characters of the text)
RECURSIVE RunsOf(_, _, _)
RunsOf(text, keep, cur) ==
    IF text = << >>
    THEN IF cur = << >> THEN << >> ELSE <<cur>>
    ELSE IF Head(text) \in keep
         THEN RunsOf(Tail(text), keep, Append(cur, Head(text)))
         ELSE (IF cur = << >> THEN << >> ELSE <<cur>>)
              \o RunsOf(Tail(text), keep, << >>)

CharsOf(text) == {text[k] : k \in 1..Len(text)}

\* re.findall(r"\b\w+\b", text)
FindWords(text) ==
    RunsOf(text, {c \in CharsOf(text) : IsWordChar(c)}, << >>)

\* str.split()
Split(text) ==
    RunsOf(text, {c \in CharsOf(text) : ~IsSpace(c)}, << >>)

SeqToSet(s) == {s[k] : k \in 1..Len(s)}

(***************************************************************************)
(* segmenter.py                                                            *)
(***************************************************************************)
\* the diversity of the words as written, the letter case kept
CaseSensitiveDiversity(text) ==
    LET words == FindWords(text)
    IN  IF words = << >> THEN Zero
        ELSE Rat(Cardinality(SeqToSet(words)), Len(words))

compute_lexical_diversity(text) ==
    LET words == FindWords(Lower(text))
    IN  IF words = << >> THEN Zero
        ELSE Rat(Cardinality(SeqToSet(words)), Len(words))

\* a sort that puts a word before the words of equal start (not stable)
RECURSIVE InsertBeforeEqual(_, _)
InsertBeforeEqual(s, w) ==
    IF s = << >> THEN <<w>>
    ELSE IF w.start <= Head(s).start THEN <<w>> \o s
    ELSE <<Head(s)>> \o InsertBeforeEqual(Tail(s), w)

\* insertion of w after every element whose start is <= w.start
RECURSIVE InsertByStart(_, _)
InsertByStart(s, w) ==
    IF s = << >> THEN <<w>>
    ELSE IF w.start < Head(s).start THEN <<w>> \o s
    ELSE <<Head(s)>> \o InsertByStart(Tail(s), w)

\* the input left in the order it was delivered
Unsorted(t) == t

\* sorted(transcript, key=lambda x: x["start"]) : a stable sort
RECURSIVE SortedByStart(_)
SortedByStart(t) ==
    IF t = << >> THEN << >>
    ELSE InsertByStart(SortedByStart(SubSeq(t, 1, Len(t) - 1)), t[Len(t)])

\* the gap measured from the previous word's start
GapFromStart(word, prev) == word.start - prev.start

Gap(word, prev) == word.start - prev.end

Duration(word, first) == word.end - first.start

\* the two tests with equality excluded
SplitStrict(duration, gap, ml, pt) == duration > ml \/ gap > pt

\* the pause test alone
SplitOnPauseOnly(duration, gap, ml, pt) == gap >= pt

\* the pause test with equality excluded
SplitPauseStrict(duration, gap, ml, pt) == duration >= ml \/ gap > pt

ShouldSplit(duration, gap, ml, pt) == duration >= ml \/ gap >= pt

\* the silence measured from the start of the word before
RECURSIVE SilenceFromStarts(_)
SilenceFromStarts(words) ==
    IF Len(words) < 2 THEN 0
    ELSE LET n == Len(words)
             gap == words[n].start - words[n - 1].start
         IN  SilenceFromStarts(SubSeq(words, 1, n - 1))
                 + (IF gap > 0 THEN gap ELSE 0)

\* total_silence of make_segment
RECURSIVE TotalSilence(_)
TotalSilence(words) ==
    IF Len(words) < 2 THEN 0
    ELSE LET n == Len(words)
             gap == words[n].start - words[n - 1].end
         IN  TotalSilence(SubSeq(words, 1, n - 1)) + (IF gap > 0 THEN gap ELSE 0)

\* a rate that is the word count when the segment has no duration
WordsWhenInstant(word_count, segment_duration) ==
    IF segment_duration > 0 THEN Rat(word_count, segment_duration)
    ELSE Whole(word_count)

\* line 72
SpeechRate(word_count, segment_duration) ==
    IF segment_duration > 0 THEN Rat(word_count, segment_duration) ELSE Zero

\* the silence measured against the time left for speech
SilenceOverSpeech(total_silence, segment_duration) ==
    IF segment_duration > total_silence
    THEN Rat(total_silence, segment_duration - total_silence) ELSE Zero

\* line 74
SilenceRatio(total_silence, segment_duration) ==
    IF segment_duration > 0 THEN Rat(total_silence, segment_duration) ELSE Zero

make_segment(words) ==
    LET text == JoinSpace([k \in 1..Len(words) |-> words[k].text])
        segment_duration == words[Len(words)].end - words[1].start
        word_count == Len(words)
        total_silence == TotalSilence(words)
        confs == [k \in 1..Len(words) |-> Get(words[k], "conf", 0)]
    IN  [start |-> words[1].start,
         end |-> words[Len(words)].end,
         text |-> Strip(text),
         speech_rate |-> SpeechRate(word_count, segment_duration),
         lexical_diversity |-> compute_lexical_diversity(text),
         silence_ratio |-> SilenceRatio(total_silence, segment_duration),
         asr_confidence |-> Rat(SumSeq(confs), ConfScale * Len(words))]

(***************************************************************************)
(* metrics_analyzer.py.  One tick of time is one second; the thresholds    *)
(* given in fractions of a second are compared after scaling.              *)
(***************************************************************************)
TicksPerSecond == 1

EmptyDict == [k \in {} |-> Zero]

Keys(dct) == DOMAIN dct

Max(S) == CHOOSE x \in S : \A y \in S : y <= x

Min(S) == CHOOSE x \in S : \A y \in S : x <= y

RECURSIVE RatSum(_)
RatSum(s) == IF s = << >> THEN Zero ELSE RatAdd(Head(s), RatSum(Tail(s)))

\* statistics.mean of a non-empty sequence of fractions
Mean(data) == RatDiv(RatSum(data), Whole(Len(data)))

\* statistics.stdev raises StatisticsError for fewer than two data points
StdevRaises(data) == Len(data) < 2

\* the sample variance, for at least two data points
Variance(data) ==
    LET m == Mean(data)
        sq == [k \in 1..Len(data) |->
                  RatMul(RatSub(data[k], m), RatSub(data[k], m))]
    IN  RatDiv(RatSum(sq), Whole(Len(data) - 1))

\* statistics.stdev of at least two data points
Stdev(data) == Sqrt(Variance(data))

RatMaxOf(data) ==
    data[CHOOSE k \in 1..Len(data) :
            \A j \in 1..Len(data) : RatLeq(data[j], data[k])]

RatMinOf(data) ==
    data[CHOOSE k \in 1..Len(data) :
            \A j \in 1..Len(data) : RatLeq(data[k], data[j])]

\* the pattern \bpat\b matches the text at position p
MatchesAt(text, pat, p) ==
    /\ p + Len(pat) - 1 <= Len(text)
    /\ SubSeq(text, p, p + Len(pat) - 1) = pat
    /\ (p = 1 \/ ~IsWordChar(text[p - 1]))
    /\ (p + Len(pat) > Len(text) \/ ~IsWordChar(text[p + Len(pat)]))

\* len(re.findall(r'\bpat\b', text)) from position p on: the matches are
\* taken left to right and do not overlap
RECURSIVE CountFrom(_, _, _)
CountFrom(text, pat, p) ==
    IF p > Len(text) THEN 0
    ELSE IF MatchesAt(text, pat, p)
         THEN 1 + CountFrom(text, pat, p + Len(pat))
         ELSE CountFrom(text, pat, p + 1)

CountPattern(text, pat) == CountFrom(text, pat, 1)

\* the summed counts of the patterns of a list
CountPatterns(text, pats) ==
    SumSeq([k \in 1..Len(pats) |-> CountPattern(text, pats[k])])

CountChar(text, c) == Cardinality({k \in 1..Len(text) : text[k] = c})

\* last index of the run of word characters that starts at p
RECURSIVE WordEnd(_, _)
WordEnd(text, p) ==
    IF p < Len(text) /\ IsWordChar(text[p + 1]) THEN WordEnd(text, p + 1)
    ELSE p

\* first index after p that is not a blank
RECURSIVE SkipSpaces(_, _)
SkipSpaces(text, p) ==
    IF p <= Len(text) /\ IsSpace(text[p]) THEN SkipSpaces(text, p + 1) ELSE p

\* the end of a match of \b(\w+)\s+\1\b that starts at p, or 0
RepetitionEnd(text, p) ==
    IF ~(IsWordChar(text[p]) /\ (p = 1 \/ ~IsWordChar(text[p - 1])))
    THEN 0
    ELSE LET e == WordEnd(text, p)
             q == SkipSpaces(text, e + 1)
         IN  IF q > e + 1 /\ q <= Len(text) /\ IsWordChar(text[q])
                /\ SubSeq(text, q, WordEnd(text, q)) = SubSeq(text, p, e)
             THEN WordEnd(text, q)
             ELSE 0

\* len(re.findall(r'\b(\w+)\s+\1\b', text)) from position p on
RECURSIVE CountRepetitionsFrom(_, _)
CountRepetitionsFrom(text, p) ==
    IF p > Len(text) THEN 0
    ELSE IF RepetitionEnd(text, p) > 0
         THEN 1 + CountRepetitionsFrom(text, RepetitionEnd(text, p) + 1)
         ELSE CountRepetitionsFrom(text, p + 1)

\* item.get("text", "").strip()
EntryText(item) == Strip(Get(item, "text", << >>))

_get_full_text(t) == JoinSpace([k \in 1..Len(t) |-> EntryText(t[k])])

\* re.sub(r'[^\w\s]', '', text)
RemovePunctuation(text) ==
    SelectSeq(text, LAMBDA c : IsWordChar(c) \/ IsSpace(c))

_get_words(t) ==
    Flatten([k \in 1..Len(t) |->
                IF EntryText(t[k]) # << >>
                THEN Split(RemovePunctuation(Lower(EntryText(t[k]))))
                ELSE << >>])

_get_total_duration(t) ==
    IF t = << >> THEN 0
    ELSE Max({Get(t[k], "end", 0) : k \in 1..Len(t)})

\* the pauses of calculate_speech_metrics: gaps > 0.1 s between entries
Pauses(t) ==
    LET gap(k) == Get(t[k + 1], "start", 0) - Get(t[k], "end", 0)
        idx == SelectSeq([k \in 1..(Len(t) - 1) |-> k],
                         LAMBDA k : 10 * gap(k) > 1 * TicksPerSecond)
    IN  [j \in 1..Len(idx) |-> gap(idx[j])]

calculate_speech_metrics(t) ==
    LET total_duration == _get_total_duration(t)
        total_words == Len(_get_words(t))
        total_speech_time ==
            SumSeq([k \in 1..Len(t) |->
                       IF EntryText(t[k]) # << >>
                       THEN Get(t[k], "end", 0) - Get(t[k], "start", 0)
                       ELSE 0])
        pauses == Pauses(t)
    IN  IF t = << >> \/ total_duration = 0 THEN EmptyDict
        ELSE [words_per_minute |->
                  IF total_duration > 0
                  THEN Rat(total_words * 60 * TicksPerSecond, total_duration)
                  ELSE Zero,
              speech_rate_wps |->
                  IF total_speech_time > 0
                  THEN Rat(total_words * TicksPerSecond, total_speech_time)
                  ELSE Zero,
              total_speech_time |-> Rat(total_speech_time, TicksPerSecond),
              silence_time |->
                  Rat(total_duration - total_speech_time, TicksPerSecond),
              silence_ratio |->
                  IF total_duration > 0
                  THEN Rat(total_duration - total_speech_time, total_duration)
                  ELSE Zero,
              average_pause_duration |->
                  IF pauses # << >>
                  THEN Rat(SumSeq(pauses), Len(pauses) * TicksPerSecond)
                  ELSE Zero,
              pause_count |-> Whole(Len(pauses)),
              long_pause_count |->
                  Whole(Len(SelectSeq(pauses,
                            LAMBDA q : 10 * q > 20 * TicksPerSecond)))]

FillerWords ==
    <<
      <<"u", "m">>, <<"u", "h">>, <<"a", "h">>, <<"e", "r">>,
      <<"h", "m", "m">>, <<"l", "i", "k", "e">>,
      <<"y", "o", "u", " ", "k", "n", "o", "w">>,
      <<"b", "a", "s", "i", "c", "a", "l", "l", "y">>,
      <<"a", "c", "t", "u", "a", "l", "l", "y">>,
      <<"s", "o", "r", "t", " ", "o", "f">>,
      <<"k", "i", "n", "d", " ", "o", "f">>,
      <<"i", " ", "m", "e", "a", "n">>, <<"w", "e", "l", "l">>, <<"s", "o">>
    >>

\* the score without its floor of 0
FluencyUnclamped(disfluencies, total_words) ==
    IF total_words > 0 THEN RatSub(One, Rat(disfluencies, total_words))
    ELSE Zero

\* line 106
FluencyScore(disfluencies, total_words) ==
    IF total_words > 0
    THEN RatMax(Zero, RatSub(One, Rat(disfluencies, total_words)))
    ELSE Zero

calculate_fluency_metrics(t) ==
    LET text_lower == Lower(_get_full_text(t))
        filler_count == CountPatterns(text_lower, FillerWords)
        repetitions == CountRepetitionsFrom(text_lower, 1)
        false_starts ==
            Cardinality({k \in 1..Len(t) :
                /\ Len(Split(EntryText(t[k]))) = 1
                /\ 10 * (Get(t[k], "end", 0) - Get(t[k], "start", 0))
                       < 5 * TicksPerSecond})
        total_words == Len(_get_words(t))
    IN  [filler_word_count |-> Whole(filler_count),
         filler_word_rate |->
             IF total_words > 0 THEN Rat(filler_count, total_words) ELSE Zero,
         repetition_count |-> Whole(repetitions),
         false_start_count |-> Whole(false_starts),
         fluency_score |->
             FluencyScore(filler_count + repetitions + false_starts,
                          total_words)]

\* the confidences with 0 for an entry that carries none
ConfidencesOrZero(t) ==
    [k \in 1..Len(t) |-> Rat(Get(t[k], "conf", 0), ConfScale)]

\* line 147
Confidences(t) ==
    LET with == SelectSeq(t, LAMBDA item : "conf" \in DOMAIN item)
    IN  [k \in 1..Len(with) |-> Rat(with[k].conf, ConfScale)]

calculate_confidence_metrics(t) ==
    LET confidences == Confidences(t)
        low_conf_segments ==
            Len(SelectSeq(confidences, LAMBDA c : RatLess(c, Rat(7, 10))))
    IN  IF confidences = << >>
        THEN [average_confidence |-> Zero, low_confidence_segments |-> Zero]
        ELSE [average_confidence |-> Mean(confidences),
              min_confidence |-> RatMinOf(confidences),
              max_confidence |-> RatMaxOf(confidences),
              confidence_std |->
                  IF Len(confidences) > 1 THEN Stdev(confidences)
                  ELSE Sqrt(Zero),
              low_confidence_segments |-> Whole(low_conf_segments),
              low_confidence_ratio |->
                  Rat(low_conf_segments, Len(confidences))]

StopWords ==
    {
      <<"t", "h", "e">>, <<"a">>, <<"a", "n">>, <<"a", "n", "d">>,
      <<"o", "r">>, <<"b", "u", "t">>, <<"i", "n">>, <<"o", "n">>,
      <<"a", "t">>, <<"t", "o">>, <<"f", "o", "r">>, <<"o", "f">>,
      <<"w", "i", "t", "h">>, <<"b", "y">>, <<"i", "s">>, <<"a", "r", "e">>,
      <<"w", "a", "s">>, <<"w", "e", "r", "e">>, <<"b", "e">>,
      <<"b", "e", "e", "n">>, <<"h", "a", "v", "e">>, <<"h", "a", "s">>,
      <<"h", "a", "d">>, <<"d", "o">>, <<"d", "o", "e", "s">>,
      <<"d", "i", "d">>, <<"w", "i", "l", "l">>, <<"w", "o", "u", "l", "d">>,
      <<"c", "o", "u", "l", "d">>, <<"s", "h", "o", "u", "l", "d">>,
      <<"m", "a", "y">>, <<"m", "i", "g", "h", "t">>, <<"c", "a", "n">>,
      <<"t", "h", "i", "s">>, <<"t", "h", "a", "t">>,
      <<"t", "h", "e", "s", "e">>, <<"t", "h", "o", "s", "e">>, <<"i">>,
      <<"y", "o", "u">>, <<"h", "e">>, <<"s", "h", "e">>, <<"i", "t">>,
      <<"w", "e">>, <<"t", "h", "e", "y">>
    }

\* the distinct elements of a sequence, in order of first occurrence
RECURSIVE Distinct(_)
Distinct(s) ==
    IF s = << >> THEN << >>
    ELSE LET d == Distinct(SubSeq(s, 1, Len(s) - 1))
         IN  IF s[Len(s)] \in SeqToSet(d) THEN d ELSE Append(d, s[Len(s)])

\* insertion of x after every element whose count is >= x's count
RECURSIVE InsertByCount(_, _)
InsertByCount(s, x) ==
    IF s = << >> THEN <<x>>
    ELSE IF Head(s).count < x.count THEN <<x>> \o s
    ELSE <<Head(s)>> \o InsertByCount(Tail(s), x)

\* the entries of a Counter by count, largest first, ties in order of
\* first occurrence
RECURSIVE SortedByCount(_)
SortedByCount(s) ==
    IF s = << >> THEN << >>
    ELSE InsertByCount(SortedByCount(SubSeq(s, 1, Len(s) - 1)), s[Len(s)])

\* s[:n]
Take(s, n) == SubSeq(s, 1, IF Len(s) < n THEN Len(s) ELSE n)

\* s[-n:]
TakeLast(s, n) == SubSeq(s, IF Len(s) > n THEN Len(s) - n + 1 ELSE 1, Len(s))

\* dict(Counter(words).most_common(n)), as a sequence of [word, count]
MostCommon(words, n) ==
    LET d == Distinct(words)
        counted == [k \in 1..Len(d) |->
                       [word |-> d[k],
                        count |-> Cardinality({j \in 1..Len(words) :
                                                  words[j] = d[k]})]]
    IN  Take(SortedByCount(counted), n)

\* re.split(r'[.!?]+', text), stripped, without the empty pieces
Sentences(text) ==
    LET pieces == RunsOf(text,
                         {c \in CharsOf(text) : c \notin {".", "!", "?"}},
                         << >>)
        stripped == [k \in 1..Len(pieces) |-> Strip(pieces[k])]
    IN  SelectSeq(stripped, LAMBDA x : x # << >>)

calculate_linguistic_metrics(t) ==
    LET words == _get_words(t)
        unique_words == SeqToSet(words)
        sentences == Sentences(_get_full_text(t))
        sentence_lengths == [k \in 1..Len(sentences) |->
                                Len(Split(sentences[k]))]
        content_words == SelectSeq(words, LAMBDA w : Lower(w) \notin StopWords)
    IN  IF words = << >> THEN EmptyDict
        ELSE [total_words |-> Whole(Len(words)),
              unique_words |-> Whole(Cardinality(unique_words)),
              lexical_diversity |-> Rat(Cardinality(unique_words), Len(words)),
              sentence_count |-> Whole(Len(sentences)),
              avg_sentence_length |->
                  IF sentence_lengths # << >>
                  THEN Rat(SumSeq(sentence_lengths), Len(sentence_lengths))
                  ELSE Zero,
              avg_word_length |->
                  Rat(SumSeq([k \in 1..Len(words) |-> Len(words[k])]),
                      Len(words)),
              most_frequent_words |-> MostCommon(content_words, 10),
              vocabulary_richness |->
                  Sqrt(Rat(Cardinality(unique_words) * Cardinality(unique_words),
                           Len(words)))]

\* a sort that puts a transition before the transitions of equal strength
RECURSIVE InsertBeforeEqualStrength(_, _)
InsertBeforeEqualStrength(s, x) ==
    IF s = << >> THEN <<x>>
    ELSE IF RatLeq(Head(s).transition_strength, x.transition_strength)
         THEN <<x>> \o s
         ELSE <<Head(s)>> \o InsertBeforeEqualStrength(Tail(s), x)

\* the strength of a transition, for the descending sort: the strengths
\* compared are fractions, so the sort compares them by cross-multiplication
RECURSIVE InsertByStrength(_, _)
InsertByStrength(s, x) ==
    IF s = << >> THEN <<x>>
    ELSE IF RatLess(Head(s).transition_strength, x.transition_strength)
         THEN <<x>> \o s
         ELSE <<Head(s)>> \o InsertByStrength(Tail(s), x)

\* sorted(transitions, key=lambda x: x["transition_strength"], reverse=True)
RECURSIVE SortedByStrength(_)
SortedByStrength(s) ==
    IF s = << >> THEN << >>
    ELSE InsertByStrength(SortedByStrength(SubSeq(s, 1, Len(s) - 1)),
                          s[Len(s)])

\* the overlap divided by the size of the larger word set
SimilarityOverLarger(current_words, next_words) ==
    IF current_words # {} /\ next_words # {}
    THEN Rat(Cardinality(current_words \cap next_words),
             Max({Cardinality(current_words), Cardinality(next_words)}))
    ELSE Zero

\* lines 182-186
Similarity(current_words, next_words) ==
    IF current_words # {} /\ next_words # {}
    THEN Rat(Cardinality(current_words \cap next_words),
             Min({Cardinality(current_words), Cardinality(next_words)}))
    ELSE Zero

\* the candidate of detect_topic_transitions for the pair (i, i + 1)
TransitionAt(segs, k) ==
    LET current_seg == segs[k]
        next_seg == segs[k + 1]
        time_gap == Get(next_seg, "start", 0) - Get(current_seg, "end", 0)
        current_words ==
            SeqToSet(Split(Lower(Get(current_seg, "text", << >>))))
        next_words == SeqToSet(Split(Lower(Get(next_seg, "text", << >>))))
        similarity == Similarity(current_words, next_words)
    IN  [selected |-> time_gap > 3 * TicksPerSecond
                        \/ RatLess(similarity, Rat(3, 10)),
         entry |->
            [timestamp |-> Rat(Get(current_seg, "end", 0), TicksPerSecond),
             time_gap |-> Rat(time_gap, TicksPerSecond),
             lexical_similarity |-> similarity,
             transition_strength |->
                 RatMax(Rat(time_gap, 5 * TicksPerSecond),
                        RatSub(One, similarity)),
             context_before |-> TakeLast(Get(current_seg, "text", << >>), 100),
             context_after |-> Take(Get(next_seg, "text", << >>), 100)]]

detect_topic_transitions(segs) ==
    IF Len(segs) < 2 THEN << >>
    ELSE LET cand == [k \in 1..(Len(segs) - 1) |-> TransitionAt(segs, k)]
             chosen == SelectSeq(cand, LAMBDA c : c.selected)
         IN  SortedByStrength([k \in 1..Len(chosen) |-> chosen[k].entry])

QuestionPatterns ==
    <<
      <<"q", "u", "e", "s", "t", "i", "o", "n">>, <<"a", "s", "k">>,
      <<"a", "n", "s", "w", "e", "r">>, <<"w", "o", "n", "d", "e", "r">>,
      <<"t", "h", "i", "n", "k", " ", "a", "b", "o", "u", "t">>
    >>

ExamplePatterns ==
    <<
      <<"f", "o", "r", " ", "e", "x", "a", "m", "p", "l", "e">>,
      <<"f", "o", "r", " ", "i", "n", "s", "t", "a", "n", "c", "e">>,
      <<"l", "i", "k", "e">>, <<"i", "m", "a", "g", "i", "n", "e">>,
      <<"s", "a", "y">>, <<"s", "u", "p", "p", "o", "s", "e">>
    >>

InteractionPatterns ==
    <<
      <<"y", "o", "u">>, <<"y", "o", "u", "r">>, <<"u", "s">>, <<"w", "e">>,
      <<"e", "v", "e", "r", "y", "o", "n", "e">>, <<"c", "l", "a", "s", "s">>
    >>

analyze_engagement_patterns(t) ==
    LET text_lower == Lower(_get_full_text(t))
        words == _get_words(t)
        question_count == CountChar(text_lower, "?")
                              + CountPatterns(text_lower, QuestionPatterns)
        example_count == CountPatterns(text_lower, ExamplePatterns)
        interaction_count == CountPatterns(text_lower, InteractionPatterns)
    IN  [question_indicators |-> Whole(question_count),
         example_count |-> Whole(example_count),
         interaction_cues |-> Whole(interaction_count),
         engagement_score |->
             IF words # << >>
             THEN Rat(question_count + example_count + interaction_count,
                      Len(words))
             ELSE Zero]

\* a returned value, or a raised exception
Ok(v) == [ok |-> TRUE, value |-> v]

Raise(e) == [ok |-> FALSE, exception |-> e]

\* segment_rates of calculate_pacing_analysis
SegmentRates(segs) ==
    LET timed == SelectSeq(segs,
                     LAMBDA sg : Get(sg, "end", 0) - Get(sg, "start", 0) > 0)
    IN  [k \in 1..Len(timed) |->
            LET duration == Get(timed[k], "end", 0) - Get(timed[k], "start", 0)
                word_count == Len(Split(Get(timed[k], "text", << >>)))
            IN  [timestamp |-> Rat(Get(timed[k], "start", 0), TicksPerSecond),
                 rate |-> Rat(word_count * TicksPerSecond, duration),
                 duration |-> Rat(duration, TicksPerSecond)]]

\* pacing_changes of calculate_pacing_analysis
PacingChanges(segment_rates) ==
    LET rates == [k \in 1..Len(segment_rates) |-> segment_rates[k].rate]
        change(k) ==
            IF RatLess(Zero, rates[k - 1])
            THEN RatDiv(RatAbs(RatSub(rates[k], rates[k - 1])), rates[k - 1])
            ELSE Zero
        idx == SelectSeq([k \in 1..(Len(rates) - 1) |-> k + 1],
                         LAMBDA k : RatLess(Rat(3, 10), change(k)))
    IN  [j \in 1..Len(idx) |->
            [timestamp |-> segment_rates[idx[j]].timestamp,
             change_magnitude |-> change(idx[j]),
             new_rate |-> rates[idx[j]],
             previous_rate |-> rates[idx[j] - 1]]]

\* a guard that lets two segments through
FewerThanTwo(segs) == Len(segs) < 2

\* line 234
TooFewForPacing(segs) == Len(segs) < 3

calculate_pacing_analysis(segs) ==
    LET segment_rates == SegmentRates(segs)
        rates == [k \in 1..Len(segment_rates) |-> segment_rates[k].rate]
        pacing_changes == PacingChanges(segment_rates)
    IN  IF TooFewForPacing(segs) THEN Ok(EmptyDict)
        ELSE IF segment_rates = << >> THEN Ok(EmptyDict)
        ELSE IF RatLess(Zero, Mean(rates)) /\ StdevRaises(rates)
             THEN Raise("StatisticsError")
        ELSE Ok([average_rate |-> Mean(rates),
                 rate_std |-> IF Len(rates) > 1 THEN Stdev(rates)
                              ELSE Sqrt(Zero),
                 min_rate |-> RatMinOf(rates),
                 max_rate |-> RatMaxOf(rates),
                 pacing_consistency |->
                     IF RatLess(Zero, Mean(rates))
                     THEN OneMinusSqrt(RatDiv(Variance(rates),
                                              RatMul(Mean(rates), Mean(rates))))
                     ELSE OneMinusSqrt(One),
                 significant_pace_changes |-> Whole(Len(pacing_changes)),
                 pace_changes |-> Take(pacing_changes, 5)])

\* LectureMetricsAnalyzer(t, segs).generate_comprehensive_report()
generate_comprehensive_report(t, segs) ==
    LET pacing == calculate_pacing_analysis(segs)
    IN  IF ~pacing.ok THEN pacing
        ELSE Ok([lecture_overview |->
                     [total_duration_minutes |->
                          Rat(_get_total_duration(t), 60 * TicksPerSecond),
                      total_words |-> Whole(Len(_get_words(t))),
                      segment_count |-> Whole(Len(segs))],
                 speech_metrics |-> calculate_speech_metrics(t),
                 fluency_metrics |-> calculate_fluency_metrics(t),
                 linguistic_metrics |-> calculate_linguistic_metrics(t),
                 confidence_metrics |-> calculate_confidence_metrics(t),
                 engagement_analysis |-> analyze_engagement_patterns(t),
                 pacing_analysis |-> pacing.value,
                 topic_transitions |-> Take(detect_topic_transitions(segs), 3)])

\* the rate rule with the two boundaries inside the ranges that fire
RateInsightInclusive(wpm) ==
    IF RatLeq(wpm, Whole(120))
    THEN <<[category |-> "Pacing", severity |-> "medium", rule |-> "slow"]>>
    ELSE IF RatLeq(Whole(200), wpm)
    THEN <<[category |-> "Pacing", severity |-> "high", rule |-> "fast"]>>
    ELSE << >>

\* lines 299-313: the insight appended for words_per_minute, if any.  The
\* field rule stands for the insight's text, which names the metric.
RateInsight(wpm) ==
    IF RatLess(wpm, Whole(120))
    THEN <<[category |-> "Pacing", severity |-> "medium", rule |-> "slow"]>>
    ELSE IF RatLess(Whole(200), wpm)
    THEN <<[category |-> "Pacing", severity |-> "high", rule |-> "fast"]>>
    ELSE << >>

\* lines 316-323
FluencyInsight(fluency_score) ==
    IF RatLess(fluency_score, Rat(85, 100))
    THEN <<[category |-> "Fluency", severity |-> "medium",
            rule |-> "fluency"]>>
    ELSE << >>

\* lines 326-333
EngagementInsight(engagement_score) ==
    IF RatLess(engagement_score, Rat(2, 100))
    THEN <<[category |-> "Engagement", severity |-> "high",
            rule |-> "engagement"]>>
    ELSE << >>

\* lines 336-343
ConfidenceInsight(avg_confidence) ==
    IF RatLess(avg_confidence, Rat(8, 10))
    THEN <<[category |-> "Audio Quality", severity |-> "medium",
            rule |-> "confidence"]>>
    ELSE << >>

\* 1 - sqrt(q) < 0.7  iff  sqrt(q) > 0.3  iff  q > 0.09  (q >= 0)
BelowSevenTenths(pacing_consistency) ==
    RatLess(Rat(9, 100), pacing_consistency.one_minus_sqrt_of)

\* a consistency of 0 for a report without pacing analysis
NoPacingConsistency == OneMinusSqrt(One)

\* line 346: the consistency taken for a report without pacing analysis, 1
DefaultPacingConsistency == OneMinusSqrt(Zero)

\* lines 346-353
ConsistencyInsight(pacing_consistency) ==
    IF BelowSevenTenths(pacing_consistency)
    THEN <<[category |-> "Pacing", severity |-> "low",
            rule |-> "consistency"]>>
    ELSE << >>

\* the rules with an exit after the first insight
FirstInsightOnly(metrics) ==
    Take(RateInsight(Get(metrics.speech_metrics, "words_per_minute", Zero))
         \o FluencyInsight(Get(metrics.fluency_metrics, "fluency_score", One))
         \o EngagementInsight(Get(metrics.engagement_analysis,
                                  "engagement_score", Zero))
         \o ConfidenceInsight(Get(metrics.confidence_metrics,
                                  "average_confidence", One))
         \o ConsistencyInsight(Get(metrics.pacing_analysis,
                                   "pacing_consistency",
                                   DefaultPacingConsistency)),
         1)

\* the rules of get_actionable_insights, applied to a report
InsightsOf(metrics) ==
    LET wpm == Get(metrics.speech_metrics, "words_per_minute", Zero)
        fluency_score == Get(metrics.fluency_metrics, "fluency_score", One)
        engagement_score ==
            Get(metrics.engagement_analysis, "engagement_score", Zero)
        avg_confidence ==
            Get(metrics.confidence_metrics, "average_confidence", One)
        pacing_consistency ==
            Get(metrics.pacing_analysis, "pacing_consistency",
                DefaultPacingConsistency)
    IN  RateInsight(wpm)
        \o FluencyInsight(fluency_score)
        \o EngagementInsight(engagement_score)
        \o ConfidenceInsight(avg_confidence)
        \o ConsistencyInsight(pacing_consistency)

\* the insights for the result of generate_comprehensive_report()
InsightsFor(metrics) ==
    IF ~metrics.ok THEN metrics ELSE Ok(InsightsOf(metrics.value))

get_actionable_insights(t, segs) ==
    InsightsFor(generate_comprehensive_report(t, segs))

\* main() from the report on: lines 380-419.  The second report, generated
\* inside get_actionable_insights() by the same analyzer, equals the first.
MainOutcome(report, format, well_formed, output_has_dir) ==
    LET insights == InsightsFor(report)
    IN  IF ~well_formed THEN Raise("JSONDecodeError")
        ELSE IF ~report.ok THEN report
        ELSE IF ~insights.ok THEN insights
        ELSE IF format = "json"
        THEN IF ~output_has_dir THEN Raise("FileNotFoundError")
             ELSE Ok([written |-> [metrics |-> report.value,
                                   insights |-> insights.value],
                      printed |-> [insight_count |-> Len(insights.value)]])
        ELSE IF "words_per_minute" \notin Keys(report.value.speech_metrics)
        THEN Raise("KeyError")
        ELSE Ok([printed |->
                    [duration |->
                         report.value.lecture_overview.total_duration_minutes,
                     words |-> report.value.lecture_overview.total_words,
                     speech_rate |->
                         report.value.speech_metrics.words_per_minute,
                     fluency_score |->
                         report.value.fluency_metrics.fluency_score,
                     engagement_score |->
                         report.value.engagement_analysis.engagement_score,
                     insight_count |-> Len(insights.value),
                     top_insights |-> Take(insights.value, 3)]])

\* main() once the arguments are parsed: the transcript file holds
\* well-formed JSON or not, the segments file is given or not, the output
\* path has a directory part or not
main(t, segs, format, well_formed, segments_given, output_has_dir) ==
    MainOutcome(generate_comprehensive_report(
                    t, IF segments_given THEN segs ELSE << >>),
                format, well_formed, output_has_dir)

\* the loop of segment() from word k on, as a function
RECURSIVE SegmentLoop(_, _, _, _, _, _)
SegmentLoop(s, k, cur, segs, ml, pt) ==
    IF k > Len(s)
    THEN IF cur # << >> THEN Append(segs, make_segment(cur)) ELSE segs
    ELSE IF cur = << >> THEN SegmentLoop(s, k + 1, <<s[k]>>, segs, ml, pt)
    ELSE IF ShouldSplit(Duration(s[k], cur[1]), Gap(s[k], cur[Len(cur)]),
                        ml, pt)
         THEN SegmentLoop(s, k + 1, <<s[k]>>,
                          Append(segs, make_segment(cur)), ml, pt)
         ELSE SegmentLoop(s, k + 1, Append(cur, s[k]), segs, ml, pt)

\* segment(transcript, max_len, pause_thresh) as a function
segment(t, ml, pt) ==
    IF t = << >> THEN << >>
    ELSE SegmentLoop(SortedByStart(t), 1, << >>, << >>, ml, pt)

(***************************************************************************)
(* segment(), one action per step of its loop.  The fields start, end and  *)
(* text of a word are read by subscript: a word without one of them makes  *)
(* the step raise KeyError, and segment() returns nothing.                 *)
(***************************************************************************)
\* no call made yet
NoCall == [called |-> FALSE]

RequiredFields == {"start", "end", "text"}

HasRequiredFields(w) == RequiredFields \subseteq DOMAIN w

\* lines 40-41: the subscripts of a loop step find their keys
LoopFieldsPresent(word, cur) ==
    /\ "start" \in DOMAIN word
    /\ "end" \in DOMAIN cur[Len(cur)]
    /\ "end" \in DOMAIN word
    /\ "start" \in DOMAIN cur[1]

\* lines 58, 61, 67: a subscript of make_segment(words) raises KeyError
MakeSegmentRaises(words) ==
    \/ \E k \in 1..Len(words) : "text" \notin DOMAIN words[k]
    \/ "end" \notin DOMAIN words[Len(words)]
    \/ "start" \notin DOMAIN words[1]
    \/ \E k \in 2..Len(words) :
           "start" \notin DOMAIN words[k] \/ "end" \notin DOMAIN words[k - 1]

\* no lecture document
NoLecture == [exists |-> FALSE]

\* the REST backend serves no request
ApiIdle ==
    /\ lecture = NoLecture
    /\ tasks = << >>
    /\ overview = NoCall

Init ==
    /\ transcript \in Transcripts
    /\ max_len \in MaxLens
    /\ pause_thresh \in PauseThreshs
    /\ pc = "call"
    /\ sorted_t = << >>
    /\ i = 0
    /\ current = << >>
    /\ segments = << >>
    /\ runs = << >>
    /\ reported = NoCall
    /\ advised = NoCall
    /\ exited = NoCall
    /\ detected = << >>
    /\ ApiIdle

\* lines 26-28: an empty transcript returns the empty list
SegmentEmpty ==
    /\ pc = "call"
    /\ transcript = << >>
    /\ pc' = "done"
    /\ UNCHANGED <<transcript, max_len, pause_thresh, sorted_t, i, current,
                   segments, runs>>
    /\ UNCHANGED analyzer_vars
    /\ UNCHANGED api_vars

\* the caller's list sorted in place, as transcript.sort(...) would
SegmentSortInPlace ==
    /\ pc = "call"
    /\ transcript # << >>
    /\ \A k \in 1..Len(transcript) : "start" \in DOMAIN transcript[k]
    /\ transcript' = SortedByStart(transcript)
    /\ sorted_t' = SortedByStart(transcript)
    /\ current' = << >>
    /\ i' = 1
    /\ pc' = "loop"
    /\ UNCHANGED <<max_len, pause_thresh, segments, runs>>
    /\ UNCHANGED analyzer_vars
    /\ UNCHANGED api_vars

\* lines 30-32: sort a copy, empty accumulator
SegmentSort ==
    /\ pc = "call"
    /\ transcript # << >>
    /\ \A k \in 1..Len(transcript) : "start" \in DOMAIN transcript[k]
    /\ sorted_t' = SortedByStart(transcript)
    /\ current' = << >>
    /\ i' = 1
    /\ pc' = "loop"
    /\ UNCHANGED <<transcript, max_len, pause_thresh, segments, runs>>
    /\ UNCHANGED analyzer_vars
    /\ UNCHANGED api_vars

\* lines 34-36
LoopFirst ==
    /\ pc = "loop"
    /\ i <= Len(sorted_t)
    /\ current = << >>
    /\ current' = <<sorted_t[i]>>
    /\ i' = i + 1
    /\ UNCHANGED <<transcript, max_len, pause_thresh, pc, sorted_t, segments,
                   runs>>
    /\ UNCHANGED analyzer_vars
    /\ UNCHANGED api_vars

\* lines 39-46
LoopSplit ==
    /\ pc = "loop"
    /\ i <= Len(sorted_t)
    /\ current # << >>
    /\ LoopFieldsPresent(sorted_t[i], current)
    /\ ~MakeSegmentRaises(current)
    /\ LET word == sorted_t[i]
           gap == Gap(word, current[Len(current)])
           duration == Duration(word, current[1])
       IN  /\ ShouldSplit(duration, gap, max_len, pause_thresh)
           /\ segments' = Append(segments, make_segment(current))
           /\ runs' = Append(runs, current)
           /\ current' = <<word>>
    /\ i' = i + 1
    /\ UNCHANGED <<transcript, max_len, pause_thresh, pc, sorted_t>>
    /\ UNCHANGED analyzer_vars
    /\ UNCHANGED api_vars

\* lines 39-44, 47-48
LoopAppend ==
    /\ pc = "loop"
    /\ i <= Len(sorted_t)
    /\ current # << >>
    /\ LoopFieldsPresent(sorted_t[i], current)
    /\ LET word == sorted_t[i]
           gap == Gap(word, current[Len(current)])
           duration == Duration(word, current[1])
       IN  /\ ~ShouldSplit(duration, gap, max_len, pause_thresh)
           /\ current' = Append(current, word)
    /\ i' = i + 1
    /\ UNCHANGED <<transcript, max_len, pause_thresh, pc, sorted_t, segments,
                   runs>>
    /\ UNCHANGED analyzer_vars
    /\ UNCHANGED api_vars

\* a return that forgets the words still accumulated
FlushNothing ==
    /\ pc = "loop"
    /\ i > Len(sorted_t)
    /\ pc' = "done"
    /\ UNCHANGED <<transcript, max_len, pause_thresh, sorted_t, i, current,
                   segments, runs>>
    /\ UNCHANGED analyzer_vars
    /\ UNCHANGED api_vars

\* lines 50-54
Flush ==
    /\ pc = "loop"
    /\ i > Len(sorted_t)
    /\ current # << >> => ~MakeSegmentRaises(current)
    /\ IF current # << >>
       THEN /\ segments' = Append(segments, make_segment(current))
            /\ runs' = Append(runs, current)
       ELSE UNCHANGED <<segments, runs>>
    /\ pc' = "done"
    /\ UNCHANGED <<transcript, max_len, pause_thresh, sorted_t, i, current>>
    /\ UNCHANGED analyzer_vars
    /\ UNCHANGED api_vars

\* line 31: the sort key of a word without start
SortKeyError ==
    /\ pc = "call"
    /\ transcript # << >>
    /\ \E k \in 1..Len(transcript) : "start" \notin DOMAIN transcript[k]
    /\ pc' = "raised"
    /\ UNCHANGED segmenter_vars
    /\ UNCHANGED analyzer_vars
    /\ UNCHANGED api_vars

\* lines 39-45: a subscript of the step, or of make_segment(current) when
\* the step closes the accumulator
LoopKeyError ==
    /\ pc = "loop"
    /\ i <= Len(sorted_t)
    /\ current # << >>
    /\ IF LoopFieldsPresent(sorted_t[i], current)
       THEN /\ ShouldSplit(Duration(sorted_t[i], current[1]),
                           Gap(sorted_t[i], current[Len(current)]),
                           max_len, pause_thresh)
            /\ MakeSegmentRaises(current)
       ELSE TRUE
    /\ pc' = "raised"
    /\ UNCHANGED segmenter_vars
    /\ UNCHANGED analyzer_vars
    /\ UNCHANGED api_vars

\* lines 51-52: a subscript of make_segment(current) for the last segment
FlushKeyError ==
    /\ pc = "loop"
    /\ i > Len(sorted_t)
    /\ current # << >>
    /\ MakeSegmentRaises(current)
    /\ pc' = "raised"
    /\ UNCHANGED segmenter_vars
    /\ UNCHANGED analyzer_vars
    /\ UNCHANGED api_vars

Next ==
    \/ SegmentEmpty
    \/ SegmentSort
    \/ LoopFirst
    \/ LoopSplit
    \/ LoopAppend
    \/ Flush

Spec == Init /\ [][Next]_vars

(***************************************************************************)
(* The analyzer and its command line, run on the transcript and on the     *)
(* segment list that segment() returned for it (or on no segment list).    *)
(***************************************************************************)
SegmentsData(given) == IF given THEN segments ELSE << >>

\* LectureMetricsAnalyzer(...).generate_comprehensive_report()
GenerateReport ==
    /\ pc = "done"
    /\ \E given \in BOOLEAN :
           reported' = [called |-> TRUE, segments_given |-> given,
                      result |-> generate_comprehensive_report(
                                     transcript, SegmentsData(given))]
    /\ pc' = "reported"
    /\ UNCHANGED <<segmenter_vars, advised, exited, detected>>
    /\ UNCHANGED api_vars

\* LectureMetricsAnalyzer(...).get_actionable_insights()
GetInsights ==
    /\ pc = "done"
    /\ \E given \in BOOLEAN :
           advised' = [called |-> TRUE, segments_given |-> given,
                        result |-> get_actionable_insights(
                                       transcript, SegmentsData(given))]
    /\ pc' = "advised"
    /\ UNCHANGED <<segmenter_vars, reported, exited, detected>>
    /\ UNCHANGED api_vars

\* main() on a transcript file that holds the transcript
Main ==
    /\ pc = "done"
    /\ \E given \in BOOLEAN :
           LET report == generate_comprehensive_report(
                             transcript, SegmentsData(given))
           IN  \E format \in {"json", "summary"}, output_has_dir \in BOOLEAN :
                   exited' = [called |-> TRUE, format |-> format,
                              well_formed |-> TRUE,
                              segments_given |-> given,
                              output_has_dir |-> output_has_dir,
                              result |-> MainOutcome(report, format, TRUE,
                                                     output_has_dir)]
    /\ pc' = "exited"
    /\ UNCHANGED <<segmenter_vars, reported, advised, detected>>
    /\ UNCHANGED api_vars

\* main() on a transcript file that is not JSON: json.load raises before
\* any analysis
MainMalformed ==
    /\ pc = "done"
    /\ \E format \in {"json", "summary"} :
           exited' = [called |-> TRUE, format |-> format,
                      well_formed |-> FALSE,
                      segments_given |-> FALSE, output_has_dir |-> TRUE,
                      result |-> MainOutcome(NoCall, format, FALSE, TRUE)]
    /\ pc' = "exited"
    /\ UNCHANGED <<segmenter_vars, reported, advised, detected>>
    /\ UNCHANGED api_vars

InitAnalyzer ==
    /\ Init
    /\ transcript \in AnalyzerTranscripts
    /\ pause_thresh = 1

NextAnalyzer ==
    \/ Next
    \/ GenerateReport
    \/ GetInsights
    \/ Main
    \/ MainMalformed

SpecAnalyzer == InitAnalyzer /\ [][NextAnalyzer]_vars

(***************************************************************************)
(* segment() with its default thresholds on two-word transcripts, the time *)
(* counted in tenths of a second: the word "hello" from 0 s to 1 s and the *)
(* word "world", 0.8 s long, starting between 1 s and 3.2 s, delivered in  *)
(* either order.                                                           *)
(***************************************************************************)
TenthsPerSecond == 10

\* max_len=60.0, pause_thresh=2.0
DefaultMaxLen == 60 * TenthsPerSecond

DefaultPauseThresh == 2 * TenthsPerSecond

Hello ==
    [start |-> 0, end |-> 10, text |-> <<"h", "e", "l", "l", "o">>,
     conf |-> 9]

World(s) ==
    [start |-> s, end |-> s + 8, text |-> <<"w", "o", "r", "l", "d">>,
     conf |-> 8]

WorldStarts == 10..32

ExampleTranscripts ==
    {<< >>}
    \cup {<<Hello, World(s)>> : s \in WorldStarts}
    \cup {<<World(s), Hello>> : s \in WorldStarts}

InitExample ==
    /\ transcript \in ExampleTranscripts
    /\ max_len = DefaultMaxLen
    /\ pause_thresh = DefaultPauseThresh
    /\ pc = "call"
    /\ sorted_t = << >>
    /\ i = 0
    /\ current = << >>
    /\ segments = << >>
    /\ runs = << >>
    /\ reported = NoCall
    /\ advised = NoCall
    /\ exited = NoCall
    /\ detected = << >>
    /\ ApiIdle

SpecExample == InitExample /\ [][Next]_vars

(***************************************************************************)
(* segment() on words of no duration spoken one tick apart, whose texts    *)
(* are one word in several letter cases and with punctuation attached, a   *)
(* second word, and a punctuation mark alone.                              *)
(***************************************************************************)
DiversityTexts ==
    {
      <<"g", "o">>,
      <<"G", "o">>,
      <<"G", "O", "!">>,
      <<"(", "g", "o", ")">>,
      <<"n", "o">>,
      <<"!">>
    }

RECURSIVE DiversityTranscriptsOfLength(_)
DiversityTranscriptsOfLength(n) ==
    IF n = 0 THEN {<< >>}
    ELSE {Append(t, [start |-> n - 1, end |-> n - 1, text |-> tx,
                     conf |-> 9]) :
             t \in DiversityTranscriptsOfLength(n - 1),
             tx \in DiversityTexts}

DiversityTranscripts ==
    UNION {DiversityTranscriptsOfLength(n) : n \in 0..MaxWords}

InitDiversity ==
    /\ transcript \in DiversityTranscripts
    /\ max_len \in 1..MaxWords
    /\ pause_thresh = 2
    /\ pc = "call"
    /\ sorted_t = << >>
    /\ i = 0
    /\ current = << >>
    /\ segments = << >>
    /\ runs = << >>
    /\ reported = NoCall
    /\ advised = NoCall
    /\ exited = NoCall
    /\ detected = << >>
    /\ ApiIdle

SpecDiversity == InitDiversity /\ [][Next]_vars

(***************************************************************************)
(* Transcripts with entries that lack start, end or text, given to         *)
(* segment() and to an analyzer constructed without a segment list.        *)
(***************************************************************************)
\* the entry w without the key f
Without(w, f) == [k \in DOMAIN w \ {f} |-> w[k]]

CompleteWords ==
    {[start |-> iv[1], end |-> iv[2], text |-> <<"a">>, conf |-> 9] :
        iv \in {<<0, 1>>, <<1, 1>>, <<2, 2>>}}

MissingWords ==
    CompleteWords
    \cup {Without(w, f) : w \in CompleteWords, f \in RequiredFields}

MissingTranscripts == UNION {[1..n -> MissingWords] : n \in 0..MaxWords}

\* LectureMetricsAnalyzer(transcript).generate_comprehensive_report(), the
\* segments_data left at None
ReportWithoutSegments ==
    /\ pc = "call"
    /\ reported' = [called |-> TRUE, segments_given |-> FALSE,
                    result |-> generate_comprehensive_report(transcript,
                                                             << >>)]
    /\ pc' = "reported"
    /\ UNCHANGED <<segmenter_vars, advised, exited, detected>>
    /\ UNCHANGED api_vars

InitMissing ==
    /\ transcript \in MissingTranscripts
    /\ max_len \in MaxLens
    /\ pause_thresh = 1
    /\ pc = "call"
    /\ sorted_t = << >>
    /\ i = 0
    /\ current = << >>
    /\ segments = << >>
    /\ runs = << >>
    /\ reported = NoCall
    /\ advised = NoCall
    /\ exited = NoCall
    /\ detected = << >>
    /\ ApiIdle

NextMissing ==
    \/ Next
    \/ SortKeyError
    \/ LoopKeyError
    \/ FlushKeyError
    \/ ReportWithoutSegments

SpecMissing == InitMissing /\ [][NextMissing]_vars

(***************************************************************************)
(* The insight rules, run on transcripts of entries of one second each,    *)
(* delivered back to back: entry k spans [k - 1, k].  The texts have 1, 2  *)
(* and 4 words, with and without a filler word and with and without an     *)
(* audience reference, so that every rule can fire and not fire; 10 words  *)
(* in 3 seconds are 200 words per minute, 2 words in 1 second are 120.     *)
(***************************************************************************)
InsightTexts ==
    {
      <<"w", "e", " ", "g", "o">>,
      <<"g", "o", " ", "o", "n">>,
      <<"u", "m">>,
      <<"w", "e", " ", "g", "o", " ", "t", "o", " ", "i", "t">>
    }

\* the first entry is recognised well or badly, the others well
InsightConfs(k) == IF k = 1 THEN {9, 5} ELSE {9}

InsightEntriesAt(k) ==
    {[start |-> k - 1, end |-> k, text |-> tx, conf |-> c] :
        tx \in InsightTexts, c \in InsightConfs(k)}

RECURSIVE InsightTranscriptsOfLength(_)
InsightTranscriptsOfLength(n) ==
    IF n = 0 THEN {<< >>}
    ELSE {Append(t, e) : t \in InsightTranscriptsOfLength(n - 1),
                         e \in InsightEntriesAt(n)}

InsightTranscripts ==
    UNION {InsightTranscriptsOfLength(n) : n \in 0..MaxWords}

\* every entry its own segment, or all entries in one segment
InsightMaxLens == {1, MaxWords + 1}

InitInsights ==
    /\ transcript \in InsightTranscripts
    /\ max_len \in InsightMaxLens
    /\ pause_thresh = 1
    /\ pc = "call"
    /\ sorted_t = << >>
    /\ i = 0
    /\ current = << >>
    /\ segments = << >>
    /\ runs = << >>
    /\ reported = NoCall
    /\ advised = NoCall
    /\ exited = NoCall
    /\ detected = << >>
    /\ ApiIdle

NextInsights ==
    \/ Next
    \/ GetInsights

SpecInsights == InitInsights /\ [][NextInsights]_vars

(***************************************************************************)
(* The topic transitions, run on segment lists as a segments file holds    *)
(* them: segments of one second, each 3 or 4 seconds after the one before, *)
(* with texts that share all, half or a quarter of their words.           *)
(***************************************************************************)
MaxSegments == MaxWords + 2

\* the calls of detect_topic_transitions() on one analyzer
MaxRuns == 2

\* the text of the first segment of every list
FirstSegmentText == <<"a", " ", "b", " ", "c", " ", "d">>

SegmentTexts ==
    {
      FirstSegmentText,
      <<"A", " ", "e", " ", "f", " ", "g">>,
      <<"b", " ", "a">>
    }

SegmentGaps == {3, 4}

RECURSIVE SegmentListsOfLength(_)
SegmentListsOfLength(n) ==
    IF n = 0 THEN {<< >>}
    ELSE IF n = 1
    THEN {<<[start |-> 0, end |-> 1, text |-> FirstSegmentText]>>}
    ELSE {Append(l, [start |-> l[Len(l)].end + g,
                     end |-> l[Len(l)].end + g + 1,
                     text |-> tx]) :
             l \in SegmentListsOfLength(n - 1),
             g \in SegmentGaps, tx \in SegmentTexts}

SegmentLists == UNION {SegmentListsOfLength(n) : n \in 0..MaxSegments}

\* LectureMetricsAnalyzer(transcript, segments).detect_topic_transitions()
DetectTransitions ==
    /\ pc = "done"
    /\ Len(detected) < MaxRuns
    /\ detected' = Append(detected, detect_topic_transitions(segments))
    /\ UNCHANGED <<segmenter_vars, pc, reported, advised, exited>>
    /\ UNCHANGED api_vars

\* an analyzer constructed with an empty transcript and a segment list
InitTransitions ==
    /\ transcript = << >>
    /\ max_len = 1
    /\ pause_thresh = 1
    /\ pc = "done"
    /\ sorted_t = << >>
    /\ i = 0
    /\ current = << >>
    /\ segments \in SegmentLists
    /\ runs = << >>
    /\ reported = NoCall
    /\ advised = NoCall
    /\ exited = NoCall
    /\ detected = << >>
    /\ ApiIdle

NextTransitions ==
    \/ DetectTransitions
    \/ GenerateReport

SpecTransitions == InitTransitions /\ [][NextTransitions]_vars

(***************************************************************************)
(* The pacing analysis, run on segment lists as a segments file holds      *)
(* them: segments of one second with 1, 3 or 4 words that follow one       *)
(* another without a gap, and possibly a segment of no duration after the  *)
(* first one.                                                              *)
(***************************************************************************)
MaxPacingSegments == MaxWords + 4

PacingTexts ==
    {
      <<"a">>,
      <<"a", " ", "b", " ", "c">>,
      <<"a", " ", "b", " ", "c", " ", "d">>
    }

RECURSIVE TimedListsOfLength(_)
TimedListsOfLength(n) ==
    IF n = 0 THEN {<< >>}
    ELSE {Append(l, [start |-> Len(l), end |-> Len(l) + 1, text |-> tx]) :
             l \in TimedListsOfLength(n - 1), tx \in PacingTexts}

\* l with a segment of no duration after its first segment
WithInstant(l) ==
    <<l[1], [start |-> l[1].end, end |-> l[1].end, text |-> <<"a">>]>>
        \o SubSeq(l, 2, Len(l))

PacingLists ==
    UNION {TimedListsOfLength(n) : n \in 0..MaxPacingSegments}
        \cup {WithInstant(l) :
                 l \in UNION {TimedListsOfLength(n) :
                                 n \in 1..(MaxPacingSegments - 1)}}

\* an analyzer constructed with an empty transcript and a segment list
InitPacing ==
    /\ transcript = << >>
    /\ max_len = 1
    /\ pause_thresh = 1
    /\ pc = "done"
    /\ sorted_t = << >>
    /\ i = 0
    /\ current = << >>
    /\ segments \in PacingLists
    /\ runs = << >>
    /\ reported = NoCall
    /\ advised = NoCall
    /\ exited = NoCall
    /\ detected = << >>
    /\ ApiIdle

NextPacing == GenerateReport

SpecPacing == InitPacing /\ [][NextPacing]_vars

(***************************************************************************)
(* The segmenter with a max_len that no transcript reaches, so that a      *)
(* segment holds words that overlap and words that end before an earlier   *)
(* one ends; a pause of one second splits or does not.                     *)
(***************************************************************************)
InitLongSegments ==
    /\ transcript \in Transcripts
    /\ max_len = MaxTime + 1
    /\ pause_thresh \in {1, MaxTime + 1}
    /\ pc = "call"
    /\ sorted_t = << >>
    /\ i = 0
    /\ current = << >>
    /\ segments = << >>
    /\ runs = << >>
    /\ reported = NoCall
    /\ advised = NoCall
    /\ exited = NoCall
    /\ detected = << >>
    /\ ApiIdle

SpecLongSegments == InitLongSegments /\ [][Next]_vars

(***************************************************************************)
(* The analyzer on transcripts of spoken phrases: a filler, a repeated     *)
(* word, two plain words, each said in one second or cut short, and no     *)
(* segment list.                                                           *)
(***************************************************************************)
PhraseTexts ==
    {
      <<"u", "m">>,
      <<"g", "o", " ", "g", "o">>,
      <<"w", "e", " ", "g", "o">>
    }

\* the entries that can stand at position k: entry k starts at second k - 1
PhrasesAt(k) ==
    {[start |-> (k - 1) * TicksPerSecond,
      end |-> (k - 1) * TicksPerSecond + d, text |-> tx, conf |-> 9] :
        tx \in PhraseTexts, d \in {0, TicksPerSecond}}

RECURSIVE PhraseTranscriptsOfLength(_)
PhraseTranscriptsOfLength(n) ==
    IF n = 0 THEN {<< >>}
    ELSE {Append(t, e) :
             t \in PhraseTranscriptsOfLength(n - 1), e \in PhrasesAt(n)}

PhraseTranscripts ==
    UNION {PhraseTranscriptsOfLength(n) : n \in 0..MaxWords}

\* an analyzer constructed with a transcript and no segment list
InitPhrases ==
    /\ transcript \in PhraseTranscripts
    /\ max_len = 1
    /\ pause_thresh = 1
    /\ pc = "done"
    /\ sorted_t = << >>
    /\ i = 0
    /\ current = << >>
    /\ segments = << >>
    /\ runs = << >>
    /\ reported = NoCall
    /\ advised = NoCall
    /\ exited = NoCall
    /\ detected = << >>
    /\ ApiIdle

NextPhrases ==
    \/ GenerateReport
    \/ GetInsights

SpecPhrases == InitPhrases /\ [][NextPhrases]_vars

(***************************************************************************)
(* The analyzer on transcripts of one-second words that carry a            *)
(* confidence of 0.5, 0.7 or 0.9, or none.                                 *)
(***************************************************************************)
WordConfs == {5, 7, 9}

\* the entries that can stand at position k
RatedWordsAt(k) ==
    {[start |-> (k - 1) * TicksPerSecond, end |-> k * TicksPerSecond,
      text |-> <<"a">>, conf |-> c] : c \in WordConfs}
    \cup {[start |-> (k - 1) * TicksPerSecond, end |-> k * TicksPerSecond,
           text |-> <<"a">>]}

RECURSIVE RatedTranscriptsOfLength(_)
RatedTranscriptsOfLength(n) ==
    IF n = 0 THEN {<< >>}
    ELSE {Append(t, e) :
             t \in RatedTranscriptsOfLength(n - 1), e \in RatedWordsAt(n)}

RatedTranscripts == UNION {RatedTranscriptsOfLength(n) : n \in 0..MaxWords}

\* an analyzer constructed with a transcript and no segment list
InitRated ==
    /\ transcript \in RatedTranscripts
    /\ max_len = 1
    /\ pause_thresh = 1
    /\ pc = "done"
    /\ sorted_t = << >>
    /\ i = 0
    /\ current = << >>
    /\ segments = << >>
    /\ runs = << >>
    /\ reported = NoCall
    /\ advised = NoCall
    /\ exited = NoCall
    /\ detected = << >>
    /\ ApiIdle

NextRated ==
    \/ GenerateReport
    \/ GetInsights

SpecRated == InitRated /\ [][NextRated]_vars

(***************************************************************************)
(* A host that keeps one word list and calls the engine on it again and    *)
(* again: segment(), then reports and insights with the segment list or    *)
(* without it, in any order.  The words are delivered in any order.        *)
(***************************************************************************)
HostWords ==
    {w \in AnalyzerWords : w.start \in {0, MaxTime} /\ w.end <= w.start + 1}

HostTranscripts == UNION {[1..n -> HostWords] : n \in 0..MaxWords}

\* the host calls segment() on its word list once more: a new invocation,
\* with new locals and a new result list
SegmentAgain ==
    /\ pc = "done"
    /\ pc' = "call"
    /\ sorted_t' = << >>
    /\ i' = 0
    /\ current' = << >>
    /\ segments' = << >>
    /\ runs' = << >>
    /\ UNCHANGED <<transcript, max_len, pause_thresh>>
    /\ UNCHANGED analyzer_vars
    /\ UNCHANGED api_vars

\* the host is back from a report or from the insights, and may call again
AnotherCall ==
    /\ pc \in {"reported", "advised"}
    /\ pc' = "done"
    /\ UNCHANGED segmenter_vars
    /\ UNCHANGED analyzer_vars
    /\ UNCHANGED api_vars

InitHost ==
    /\ Init
    /\ transcript \in HostTranscripts
    /\ pause_thresh = 1

NextHost ==
    \/ Next
    \/ SegmentAgain
    \/ GenerateReport
    \/ GetInsights
    \/ AnotherCall

SpecHost == InitHost /\ [][NextHost]_vars

(***************************************************************************)
(* The REST backend, api.py.  A lecture document, and the requests POST    *)
(* /api/lectures/{id}/analyze on it, each with its background task.  The   *)
(* tasks are coroutines: they interleave at every await.  An awaited call  *)
(* on the database or on the analysis service returns or raises; an update *)
(* that raises has written nothing.                                        *)
(***************************************************************************)
MaxRequests == 2

\* the segmenter and the analyzer are not called
EngineIdle ==
    /\ transcript = << >>
    /\ max_len = 1
    /\ pause_thresh = 1
    /\ pc = "done"
    /\ sorted_t = << >>
    /\ i = 0
    /\ current = << >>
    /\ segments = << >>
    /\ runs = << >>
    /\ reported = NoCall
    /\ advised = NoCall
    /\ exited = NoCall
    /\ detected = << >>

engine_vars == <<segmenter_vars, pc, analyzer_vars>>

\* the lecture documents a request can find: none, or a lecture with or
\* without a video and a class, never analysed or analysed before.  The
\* field status_writer is the request whose task or handler wrote
\* analysisStatus last (0: none of them).
LectureDocs ==
    {NoLecture}
    \cup {[exists |-> TRUE, has_video |-> v, has_class |-> c,
           analysisStatus |-> st[1], hasAnalysis |-> st[2],
           status_writer |-> 0] :
             v \in BOOLEAN, c \in BOOLEAN,
             st \in {<<"none", FALSE>>, <<"completed", TRUE>>,
                     <<"failed", FALSE>>}}

\* a request that has not arrived
NoRequest ==
    [pc |-> "idle", response |-> 0, has_class |-> FALSE, trouble |-> "none",
     saved |-> FALSE, last_status |-> "none", set_has_analysis |-> FALSE,
     escaped |-> FALSE]

\* outcomes of an awaited call
Outcomes == {"returns", "raises"}

\* lines 306-316: update_lecture_doc(lecture_id, {"analysisStatus": status})
\* by request k; no document, no update
SetStatus(doc, status, k) ==
    IF doc.exists
    THEN [doc EXCEPT !.analysisStatus = status, !.status_writer = k]
    ELSE doc

\* lines 898-902: the update of a completed analysis
SetCompleted(doc, k) ==
    IF doc.exists
    THEN [doc EXCEPT !.hasAnalysis = TRUE, !.analysisStatus = "completed",
                     !.status_writer = k]
    ELSE doc

\* lines 914-964: analyze_lecture up to the update to 'processing'
AnalyzeLecture(k) ==
    /\ tasks[k].pc = "idle"
    /\ k > 1 => tasks[k - 1].pc # "idle"
    /\ \E uploads \in BOOLEAN, update \in Outcomes :
           IF ~lecture.exists
           THEN /\ tasks' = [tasks EXCEPT ![k].pc = "rejected",
                                          ![k].response = 404]
                /\ UNCHANGED lecture
           ELSE IF ~uploads /\ ~lecture.has_video
           THEN /\ tasks' = [tasks EXCEPT ![k].pc = "rejected",
                                          ![k].response = 400]
                /\ UNCHANGED lecture
           ELSE LET with_video ==
                        IF uploads THEN [lecture EXCEPT !.has_video = TRUE]
                        ELSE lecture
                IN  IF update = "raises"
                    THEN /\ tasks' = [tasks EXCEPT ![k].pc = "rejected",
                                                   ![k].response = 500]
                         /\ lecture' = with_video
                    ELSE /\ tasks' = [tasks EXCEPT
                                         ![k].pc = "updated",
                                         ![k].has_class = lecture.has_class]
                         /\ lecture' = SetStatus(with_video, "processing", k)
    /\ UNCHANGED <<engine_vars, overview>>

\* lines 966-980: add_task and the response
AddTask(k) ==
    /\ tasks[k].pc = "updated"
    /\ tasks' = [tasks EXCEPT ![k].pc = "scheduled", ![k].response = 200]
    /\ UNCHANGED <<engine_vars, lecture, overview>>

\* lines 858-862: get_materials_analysis_doc
LoadMaterials(k) ==
    /\ tasks[k].pc = "scheduled"
    /\ \E outcome \in Outcomes :
           tasks' = [tasks EXCEPT
                        ![k].pc = IF outcome = "raises" THEN "except"
                                  ELSE "feedback",
                        ![k].trouble = IF outcome = "raises" THEN "exception"
                                       ELSE @]
    /\ UNCHANGED <<engine_vars, lecture, overview>>

\* lines 864-870: the professor feedback of the class, if there is a class
LoadFeedback(k) ==
    /\ tasks[k].pc = "feedback"
    /\ \E outcome \in Outcomes :
           LET raised == tasks[k].has_class /\ outcome = "raises"
           IN  tasks' = [tasks EXCEPT
                            ![k].pc = IF raised THEN "except" ELSE "analyze",
                            ![k].trouble = IF raised THEN "exception" ELSE @]
    /\ UNCHANGED <<engine_vars, lecture, overview>>

\* lines 872-885: analyze_lecture_video in a thread, and the test of its
\* result for an error
AnalyzeVideo(k) ==
    /\ tasks[k].pc = "analyze"
    /\ \E outcome \in {"result", "error", "raises"} :
           tasks' = [tasks EXCEPT
                        ![k].pc = CASE outcome = "result" -> "save"
                                    [] outcome = "error" -> "update_failed"
                                    [] OTHER -> "except",
                        ![k].trouble = CASE outcome = "result" -> @
                                         [] outcome = "error" -> "error"
                                         [] OTHER -> "exception"]
    /\ UNCHANGED <<engine_vars, lecture, overview>>

\* lines 885-891: the update to 'failed' for a result with an error
UpdateFailed(k) ==
    /\ tasks[k].pc = "update_failed"
    /\ \E outcome \in Outcomes :
           IF outcome = "raises"
           THEN /\ tasks' = [tasks EXCEPT ![k].pc = "except",
                                          ![k].trouble = "exception"]
                /\ UNCHANGED lecture
           ELSE /\ tasks' = [tasks EXCEPT ![k].pc = "finished",
                                          ![k].last_status = "failed"]
                /\ lecture' = SetStatus(lecture, "failed", k)
    /\ UNCHANGED <<engine_vars, overview>>

\* lines 893-895: save_analysis_result
SaveResult(k) ==
    /\ tasks[k].pc = "save"
    /\ \E outcome \in Outcomes :
           tasks' = [tasks EXCEPT
                        ![k].pc = IF outcome = "raises" THEN "except"
                                  ELSE "update_completed",
                        ![k].saved = (outcome = "returns"),
                        ![k].trouble = IF outcome = "raises" THEN "exception"
                                       ELSE @]
    /\ UNCHANGED <<engine_vars, lecture, overview>>

\* lines 897-904: the update to 'completed'
UpdateCompleted(k) ==
    /\ tasks[k].pc = "update_completed"
    /\ \E outcome \in Outcomes :
           IF outcome = "raises"
           THEN /\ tasks' = [tasks EXCEPT ![k].pc = "except",
                                          ![k].trouble = "exception"]
                /\ UNCHANGED lecture
           ELSE /\ tasks' = [tasks EXCEPT ![k].pc = "finished",
                                          ![k].last_status = "completed",
                                          ![k].set_has_analysis = TRUE]
                /\ lecture' = SetCompleted(lecture, k)
    /\ UNCHANGED <<engine_vars, overview>>

\* lines 906-911: except Exception, the update to 'failed'.  An exception
\* raised by this update leaves the task.
HandleException(k) ==
    /\ tasks[k].pc = "except"
    /\ \E outcome \in Outcomes :
           IF outcome = "raises"
           THEN /\ tasks' = [tasks EXCEPT ![k].pc = "finished",
                                          ![k].escaped = TRUE]
                /\ UNCHANGED lecture
           ELSE /\ tasks' = [tasks EXCEPT ![k].pc = "finished",
                                          ![k].last_status = "failed"]
                /\ lecture' = SetStatus(lecture, "failed", k)
    /\ UNCHANGED <<engine_vars, overview>>

InitAnalysis ==
    /\ EngineIdle
    /\ lecture \in LectureDocs
    /\ tasks = [k \in 1..MaxRequests |-> NoRequest]
    /\ overview = NoCall

NextAnalysis ==
    \E k \in 1..MaxRequests :
        \/ AnalyzeLecture(k)
        \/ AddTask(k)
        \/ LoadMaterials(k)
        \/ LoadFeedback(k)
        \/ AnalyzeVideo(k)
        \/ UpdateFailed(k)
        \/ SaveResult(k)
        \/ UpdateCompleted(k)
        \/ HandleException(k)

SpecAnalysis == InitAnalysis /\ [][NextAnalysis]_vars

(***************************************************************************)
(* The class overview, GET /api/classes/{id}/overview, followed for one    *)
(* topic: a theme of the syllabus, if the class has one, or a topic that   *)
(* the lectures name.  Each lecture of the class has an analysis, in which *)
(* the topic is covered, with notes, or is not; the materials of the       *)
(* lecture name the topic or do not.                                       *)
(***************************************************************************)
MaxLectures == 3

\* keyword in notes_lower
Contains(text, keyword) ==
    \E p \in 1..(Len(text) - Len(keyword) + 1) :
        SubSeq(text, p, p + Len(keyword) - 1) = keyword

\* lines 1260-1262
struggling_keywords ==
    {
      <<"r", "u", "s", "h", "e", "d">>,
      <<"s", "k", "i", "p", "p", "e", "d">>,
      <<"m", "i", "s", "s", "e", "d">>,
      <<"c", "o", "n", "f", "u", "s", "e", "d">>,
      <<"u", "n", "c", "l", "e", "a", "r">>,
      <<"n", "o", "t", " ", "c", "o", "v", "e", "r", "e", "d">>,
      <<"d", "e", "f", "e", "r", "r", "e", "d">>,
      <<"i", "n", "c", "o", "m", "p", "l", "e", "t", "e">>,
      <<"p", "o", "o", "r", "l", "y">>,
      <<"b", "r", "i", "e", "f", "l", "y">>,
      <<"i", "n", "s", "u", "f", "f", "i", "c", "i", "e", "n", "t">>,
      <<"l", "a", "c", "k">>,
      <<"m", "i", "s", "s", "i", "n", "g">>,
      <<"f", "a", "i", "l", "e", "d">>,
      <<"p", "r", "o", "b", "l", "e", "m", "a", "t", "i", "c">>
    }

\* lines 1269-1272
developing_keywords ==
    {
      <<"p", "a", "r", "t", "i", "a", "l", "l", "y", " ", "c", "o", "v", "e",
        "r", "e", "d">>,
      <<"p", "a", "r", "t", "i", "a", "l", " ", "c", "o", "v", "e", "r", "a",
        "g", "e">>,
      <<"s", "o", "m", "e", " ", "a", "s", "p", "e", "c", "t", "s">>,
      <<"b", "a", "s", "i", "c", " ", "c", "o", "v", "e", "r", "a", "g",
        "e">>,
      <<"i", "n", "t", "r", "o", "d", "u", "c", "t", "o", "r", "y", " ", "l",
        "e", "v", "e", "l">>,
      <<"l", "i", "m", "i", "t", "e", "d", " ", "c", "o", "v", "e", "r", "a",
        "g", "e">>,
      <<"c", "o", "u", "l", "d", " ", "b", "e", " ", "i", "m", "p", "r", "o",
        "v", "e", "d">>,
      <<"n", "e", "e", "d", "s", " ", "m", "o", "r", "e">>,
      <<"r", "o", "o", "m", " ", "f", "o", "r", " ", "i", "m", "p", "r", "o",
        "v", "e", "m", "e", "n", "t">>,
      <<"s", "u", "r", "f", "a", "c", "e", " ", "l", "e", "v", "e", "l">>,
      <<"o", "v", "e", "r", "v", "i", "e", "w", " ", "o", "n", "l", "y">>,
      <<"n", "o", "t", " ", "f", "u", "l", "l", "y">>
    }

\* lines 1278-1282
strong_keywords ==
    {
      <<"w", "e", "l", "l", " ", "c", "o", "v", "e", "r", "e", "d">>,
      <<"t", "h", "o", "r", "o", "u", "g", "h", "l", "y">>,
      <<"e", "x", "c", "e", "l", "l", "e", "n", "t">>,
      <<"c", "l", "e", "a", "r", " ", "e", "x", "p", "l", "a", "n", "a", "t",
        "i", "o", "n">>,
      <<"d", "e", "t", "a", "i", "l", "e", "d">>,
      <<"c", "o", "m", "p", "r", "e", "h", "e", "n", "s", "i", "v", "e">>,
      <<"i", "n", "-", "d", "e", "p", "t", "h">>,
      <<"s", "t", "r", "o", "n", "g">>,
      <<"m", "a", "s", "t", "e", "r", "e", "d">>,
      <<"e", "x", "t", "e", "n", "s", "i", "v", "e", "l", "y">>,
      <<"f", "u", "l", "l", "y", " ", "c", "o", "v", "e", "r", "e", "d">>,
      <<"c", "o", "m", "p", "l", "e", "t", "e", " ", "c", "o", "v", "e", "r",
        "a", "g", "e">>,
      <<"c", "o", "v", "e", "r", "e", "d", " ", "w", "e", "l", "l">>,
      <<"e", "f", "f", "e", "c", "t", "i", "v", "e", "l", "y", " ", "c", "o",
        "v", "e", "r", "e", "d">>,
      <<"e", "x", "p", "l", "a", "i", "n", "s">>,
      <<"d", "e", "m", "o", "n", "s", "t", "r", "a", "t", "e", "s">>,
      <<"e", "x", "p", "l", "o", "r", "e", "s">>,
      <<"a", "d", "d", "r", "e", "s", "s", "e", "s">>,
      <<"d", "i", "s", "c", "u", "s", "s", "e", "s">>,
      <<"p", "r", "e", "s", "e", "n", "t", "s">>,
      <<"i", "n", "t", "r", "o", "d", "u", "c", "e", "s", " ", "t", "h", "e">>
    }

_infer_topic_status(notes) ==
    LET notes_lower == Lower(notes)
    IN  IF notes = << >> THEN "developing"
        ELSE IF \E keyword \in struggling_keywords :
                    Contains(notes_lower, keyword)
        THEN "struggling"
        ELSE IF \E keyword \in developing_keywords :
                    Contains(notes_lower, keyword)
        THEN "developing"
        ELSE IF \E keyword \in strong_keywords :
                    Contains(notes_lower, keyword)
        THEN "strong"
        ELSE "developing"

\* a status that follows the latest lecture, unless the topic is struggling
LatestUnlessStruggling(current_status, status) ==
    IF current_status = "struggling" THEN "struggling" ELSE status

\* lines 1386-1392: the status of the topic after a lecture of this status
FoldStatus(current_status, status) ==
    IF status = "struggling" THEN "struggling"
    ELSE IF status = "developing" /\ current_status # "struggling"
    THEN "developing"
    ELSE IF status = "strong" /\ current_status = "not covered"
    THEN "strong"
    ELSE current_status

\* the topic is not in topic_status_map
NoEntry == [present |-> FALSE]

\* lines 1317-1322: the entry of a syllabus theme
SyllabusEntry ==
    [present |-> TRUE, status |-> "not covered", count |-> 0,
     is_syllabus |-> TRUE]

\* lines 1372-1380: the entry made for a topic met in an analysis
NewEntry ==
    [present |-> TRUE, status |-> "not covered", count |-> 0,
     is_syllabus |-> FALSE]

\* lines 1465-1473: the entry made for a topic met in the materials only
MaterialsEntry ==
    [present |-> TRUE, status |-> "developing", count |-> 1,
     is_syllabus |-> FALSE]

\* lines 1351-1392: the topic_coverage item of the topic in one analysis
AfterCoverage(entry, item) ==
    IF ~item.covered THEN entry
    ELSE LET status == _infer_topic_status(item.notes)
             target == IF entry.present THEN entry ELSE NewEntry
         IN  [target EXCEPT !.count = @ + 1,
                            !.status = FoldStatus(target.status, status)]

\* lines 1441-1473: the topic in the materials analysis of the lecture
AfterMaterials(entry, item) ==
    IF item.in_materials /\ ~entry.present THEN MaterialsEntry ELSE entry

\* lines 1478-1526: the topic in unified_topics
UnifiedTopic(entry) ==
    IF ~entry.present THEN [listed |-> FALSE]
    ELSE IF entry.is_syllabus
    THEN [listed |-> TRUE, status |-> entry.status,
          coverage_pct |-> IF entry.count > 0
                           THEN (IF entry.count * 20 < 100
                                 THEN entry.count * 20 ELSE 100)
                           ELSE 0]
    ELSE IF entry.status = "not covered" THEN [listed |-> FALSE]
    ELSE [listed |-> TRUE, status |-> entry.status,
          coverage_pct |-> IF entry.status = "developing" THEN 50
                           ELSE IF entry.status = "strong" THEN 80 ELSE 30]

\* the notes of the analyses
CoverageNotes ==
    {
      << >>,
      <<"T", "h", "o", "r", "o", "u", "g", "h", "l", "y", " ", "r", "u", "s", "h", "e", "d">>,
      <<"d", "e", "t", "a", "i", "l", "e", "d", ",", " ", "n", "o", "t", " ", "f", "u", "l", "l", "y">>,
      <<"W", "e", "l", "l", " ", "c", "o", "v", "e", "r", "e", "d">>,
      <<"f", "i", "n", "e">>
    }

\* what a lecture says of the topic
LectureItems ==
    {[covered |-> TRUE, notes |-> n, in_materials |-> m] :
        n \in CoverageNotes, m \in BOOLEAN}
    \cup {[covered |-> FALSE, notes |-> << >>, in_materials |-> m] :
             m \in BOOLEAN}

ClassLectures == UNION {[1..n -> LectureItems] : n \in 0..MaxLectures}

\* lines 1296-1322: the class is found, its lectures are read, the map
\* starts with the syllabus themes
StartOverview ==
    /\ overview.called
    /\ overview.pc = "start"
    /\ overview' = [overview EXCEPT
                       !.pc = "loop",
                       !.entry = IF overview.has_syllabus THEN SyllabusEntry
                                 ELSE NoEntry]
    /\ UNCHANGED <<engine_vars, lecture, tasks>>

\* lines 1326-1476: one lecture of the loop
FoldLecture ==
    /\ overview.called
    /\ overview.pc = "loop"
    /\ overview.next <= Len(overview.lectures)
    /\ LET item == overview.lectures[overview.next]
       IN  overview' = [overview EXCEPT
                           !.next = @ + 1,
                           !.entry = AfterMaterials(
                                         AfterCoverage(overview.entry, item),
                                         item)]
    /\ UNCHANGED <<engine_vars, lecture, tasks>>

\* lines 1478-1564: the response
BuildTopics ==
    /\ overview.called
    /\ overview.pc = "loop"
    /\ overview.next > Len(overview.lectures)
    /\ overview' = [overview EXCEPT
                       !.pc = "done",
                       !.topic = UnifiedTopic(overview.entry)]
    /\ UNCHANGED <<engine_vars, lecture, tasks>>

InitOverview ==
    /\ EngineIdle
    /\ lecture = NoLecture
    /\ tasks = << >>
    /\ overview \in {[called |-> TRUE, pc |-> "start", has_syllabus |-> h,
                      lectures |-> l, next |-> 1, entry |-> NoEntry,
                      topic |-> [listed |-> FALSE]] :
                        h \in BOOLEAN, l \in ClassLectures}

NextOverview ==
    \/ StartOverview
    \/ FoldLecture
    \/ BuildTopics

SpecOverview == InitOverview /\ [][NextOverview]_vars

(***************************************************************************)
(* Reference notions used by the properties.                               *)
(***************************************************************************)
\* the position of t[j] in the stable sort of t by start
Rank(t, j) ==
    1 + Cardinality({k \in 1..Len(t) : t[k].start < t[j].start})
      + Cardinality({k \in 1..(j - 1) : t[k].start = t[j].start})

\* t sorted by start ascending, ties kept in original order
StableSorted(t) ==
    [p \in 1..Len(t) |-> t[CHOOSE j \in 1..Len(t) : Rank(t, j) = p]]

TextsOf(words) == [k \in 1..Len(words) |-> words[k].text]

Returned == pc = "done"

\* the sorted words do not overlap in time
NoOverlap(s) == \A k \in 1..(Len(s) - 1) : s[k].end <= s[k + 1].start

\* the permutations of 1..n, for every length of transcript
PermsOfLength ==
    [n \in 0..(MaxWords + 1) |->
        {p \in [1..n -> 1..n] : \A a, b \in 1..n : a # b => p[a] # p[b]}]

Perms(n) == PermsOfLength[n]

Permuted(t, p) == [k \in 1..Len(t) |-> t[p[k]]]

\* number of words in the first j runs
WordsBefore(rs, j) == Len(Flatten(SubSeq(rs, 1, j)))

(***************************************************************************)
(* C1 (as stated): the word runs of the returned segments, concatenated,   *)
(* are the input stably sorted by start, and each segment's text is the    *)
(* space-join of the texts of its run.                                     *)
(***************************************************************************)
C1_TextIsPlainJoin ==
    Returned =>
        /\ Flatten(runs) = StableSorted(transcript)
        /\ Len(segments) = Len(runs)
        /\ \A k \in 1..Len(segments) :
               segments[k].text = JoinSpace(TextsOf(runs[k]))

(***************************************************************************)
(* C1 (amended): the word runs of the returned segments, concatenated in   *)
(* output order, are exactly the input stably sorted by start (no word     *)
(* lost or duplicated), every run is non-empty, and each segment's text is *)
(* the space-join of the texts of its run with leading and trailing        *)
(* whitespace stripped.                                                    *)
(***************************************************************************)
C1_Partition ==
    Returned =>
        /\ Flatten(runs) = StableSorted(transcript)
        /\ Len(segments) = Len(runs)
        /\ \A k \in 1..Len(segments) :
               /\ runs[k] # << >>
               /\ segments[k].text = Strip(JoinSpace(TextsOf(runs[k])))

C1_Witness ==
    /\ Returned
    /\ Len(segments) >= 2
    /\ \E k \in 1..Len(runs) : Len(runs[k]) >= 2
    /\ sorted_t # transcript
    /\ \E k \in 1..Len(segments) :
           segments[k].text # JoinSpace(TextsOf(runs[k]))

(***************************************************************************)
(* C2 (as stated): for words with end >= start, overlapping or not, every  *)
(* adjacent pair of returned segments has segment[i].start <=              *)
(* segment[i+1].start and segment[i].end <= segment[i+1].start.            *)
(***************************************************************************)
C2_NonOverlappingAlways ==
    Returned =>
        \A k \in 1..(Len(segments) - 1) :
            /\ segments[k].start <= segments[k + 1].start
            /\ segments[k].end <= segments[k + 1].start

(***************************************************************************)
(* C2 (amended): every adjacent pair of returned segments has              *)
(* segment[i].start <= segment[i+1].start; segment[i].end <=               *)
(* segment[i+1].start holds when no word of the sorted transcript starts   *)
(* before the preceding word ends.                                         *)
(***************************************************************************)
C2_TimeOrdered ==
    Returned =>
        \A k \in 1..(Len(segments) - 1) :
            /\ segments[k].start <= segments[k + 1].start
            /\ NoOverlap(StableSorted(transcript)) =>
                   segments[k].end <= segments[k + 1].start

C2_Witness ==
    /\ Returned
    /\ Len(segments) = 3
    /\ NoOverlap(StableSorted(transcript))
    /\ transcript # StableSorted(transcript)

(***************************************************************************)
(* C3: the result of segment(W) is the result of segment() on the stable   *)
(* sort of W, and every reordering of W with the same stable sort gives    *)
(* the same segment list.                                                  *)
(***************************************************************************)
C3_SortFirst ==
    Returned =>
        /\ segments = segment(StableSorted(transcript), max_len, pause_thresh)
        /\ \A p \in Perms(Len(transcript)) :
               StableSorted(Permuted(transcript, p)) = StableSorted(transcript)
                   => segment(Permuted(transcript, p), max_len, pause_thresh)
                          = segments

C3_Witness ==
    /\ Returned
    /\ Len(transcript) = 3
    /\ transcript # StableSorted(transcript)
    /\ \E a, b \in 1..3 : a # b /\ transcript[a].start = transcript[b].start
                                /\ transcript[a] # transcript[b]
    /\ Len(segments) >= 2

FitsOneSegment(s, ml, pt) ==
    /\ s # << >>
    /\ \A k \in 1..(Len(s) - 1) : s[k + 1].start - s[k].end < pt
    /\ \A k \in 1..Len(s) : s[k].end - s[1].start < ml

\* 8 words of 1 s with gaps of 0.1 s, in tenths of a second
EightWords ==
    [k \in 1..8 |-> [start |-> 11 * (k - 1), end |-> 11 * (k - 1) + 10,
                     text |-> <<"a">>]]

(***************************************************************************)
(* C6: if in the sorted non-empty transcript every gap between             *)
(* consecutive words is < pause_thresh and w.end - first.start < max_len   *)
(* for every word w, exactly one segment is returned; so it is for 8       *)
(* one-second words with 0.1 s gaps, max_len 60 s and pause_thresh 2 s.    *)
(***************************************************************************)
C6_OneSegment ==
    /\ (Returned
          /\ FitsOneSegment(StableSorted(transcript), max_len, pause_thresh))
           => Len(segments) = 1
    /\ (pc = "call" /\ transcript = << >>) =>
           /\ FitsOneSegment(EightWords, 600, 20)
           /\ Len(segment(EightWords, 600, 20)) = 1

C6_Witness ==
    /\ Returned
    /\ Len(transcript) = 3
    /\ FitsOneSegment(StableSorted(transcript), max_len, pause_thresh)
    /\ Len(segments) = 1
    /\ segments[1].end > segments[1].start
    /\ \E k \in 1..2 : sorted_t[k + 1].start - sorted_t[k].end = pause_thresh - 1

NumericFields ==
    [speech_metrics |->
         {"words_per_minute", "speech_rate_wps", "total_speech_time",
          "silence_time", "silence_ratio", "average_pause_duration",
          "pause_count", "long_pause_count"},
     fluency_metrics |->
         {"filler_word_count", "filler_word_rate", "repetition_count",
          "false_start_count", "fluency_score"},
     linguistic_metrics |->
         {"total_words", "unique_words", "lexical_diversity",
          "sentence_count", "avg_sentence_length", "avg_word_length",
          "vocabulary_richness"},
     confidence_metrics |->
         {"average_confidence", "min_confidence", "max_confidence",
          "confidence_std", "low_confidence_segments",
          "low_confidence_ratio"},
     engagement_analysis |->
         {"question_indicators", "example_count", "interaction_cues",
          "engagement_score"},
     pacing_analysis |->
         {"average_rate", "rate_std", "min_rate", "max_rate",
          "pacing_consistency", "significant_pace_changes"}]

ListFields ==
    [speech_metrics |-> {},
     fluency_metrics |-> {},
     linguistic_metrics |-> {"most_frequent_words"},
     confidence_metrics |-> {},
     engagement_analysis |-> {},
     pacing_analysis |-> {"pace_changes"}]

\* the value 0, in each of the shapes a numeric field takes
IsZeroValue(v) == v \in {Zero, Sqrt(Zero), OneMinusSqrt(One)}

(***************************************************************************)
(* C8: for an empty transcript segment() returns the empty list, and the   *)
(* report of LectureMetricsAnalyzer([], []) is returned without raising    *)
(* with every numeric field of every sub-report present with value 0 and   *)
(* every list field present and empty.                                     *)
(***************************************************************************)
C8_EmptyReportAllZero ==
    (reported.called /\ transcript = << >>) =>
        /\ segments = << >>
        /\ reported.result.ok
        /\ reported.result.value.topic_transitions = << >>
        /\ \A sub \in DOMAIN NumericFields :
               LET d == reported.result.value[sub]
               IN  /\ \A key \in NumericFields[sub] :
                          key \in Keys(d) /\ IsZeroValue(d[key])
                   /\ \A key \in ListFields[sub] :
                          key \in Keys(d) /\ d[key] = << >>

(***************************************************************************)
(* C9: for a transcript with all required fields and a segment list that   *)
(* segment() returned for it, zero-duration segments included,             *)
(* generate_comprehensive_report() returns and never raises.               *)
(***************************************************************************)
C9_ReportNeverRaises ==
    (reported.called /\ reported.segments_given) => reported.result.ok

(***************************************************************************)
(* C10: main() on a well-formed transcript, empty or without the optional  *)
(* fields, with an output path inside a directory, completes in both       *)
(* formats; only malformed JSON makes it fail.                             *)
(***************************************************************************)
C10_MainCompletes ==
    (exited.called /\ exited.output_has_dir) =>
        (exited.result.ok <=> exited.well_formed)

(***************************************************************************)
(* The report that the call of get_actionable_insights() worked on, and    *)
(* the insights it returned for one rule.                                  *)
(***************************************************************************)
AdvisedMetrics ==
    generate_comprehensive_report(
        transcript, SegmentsData(advised.segments_given)).value

InsightsByRule(rules) ==
    SelectSeq(advised.result.value, LAMBDA x : x.rule \in rules)

(***************************************************************************)
(* C11: get_actionable_insights() returns for words_per_minute exactly one *)
(* Pacing insight of severity medium when wpm < 120, exactly one Pacing    *)
(* insight of severity high when wpm > 200, and no words-per-minute        *)
(* insight when 120 <= wpm <= 200, the boundaries 120 and 200 included;    *)
(* the two rate insights are never both returned.                          *)
(***************************************************************************)
C11_RateInsight ==
    advised.called =>
        /\ advised.result.ok
        /\ LET wpm == Get(AdvisedMetrics.speech_metrics, "words_per_minute",
                          Zero)
               rate == InsightsByRule({"slow", "fast"})
           IN  /\ RatLess(wpm, Whole(120)) =>
                      rate = <<[category |-> "Pacing", severity |-> "medium",
                                rule |-> "slow"]>>
               /\ RatLess(Whole(200), wpm) =>
                      rate = <<[category |-> "Pacing", severity |-> "high",
                                rule |-> "fast"]>>
               /\ (RatLeq(Whole(120), wpm) /\ RatLeq(wpm, Whole(200))) =>
                      rate = << >>
               /\ Len(rate) <= 1

\* 10 words in 3 seconds: exactly 200 words per minute, no rate insight,
\* while other rules fired
C11_Witness ==
    /\ advised.called
    /\ advised.result.ok
    /\ Get(AdvisedMetrics.speech_metrics, "words_per_minute", Zero)
           = Whole(200)
    /\ InsightsByRule({"slow", "fast"}) = << >>
    /\ advised.result.value # << >>

(***************************************************************************)
(* The rule table: the category and the severity of each rule's insight,   *)
(* and the place of the rule in the evaluation order.                      *)
(***************************************************************************)
RuleTable ==
    {[category |-> "Pacing", severity |-> "medium", rule |-> "slow"],
     [category |-> "Pacing", severity |-> "high", rule |-> "fast"],
     [category |-> "Fluency", severity |-> "medium", rule |-> "fluency"],
     [category |-> "Engagement", severity |-> "high", rule |-> "engagement"],
     [category |-> "Audio Quality", severity |-> "medium",
      rule |-> "confidence"],
     [category |-> "Pacing", severity |-> "low", rule |-> "consistency"]}

RuleOrder ==
    [slow |-> 1, fast |-> 1, fluency |-> 2, engagement |-> 3,
     confidence |-> 4, consistency |-> 5]

(***************************************************************************)
(* C12: in get_actionable_insights() each rule fires iff its own condition *)
(* holds, whatever the other rules did: words_per_minute < 120 or > 200,   *)
(* fluency_score < 0.85 (Fluency/medium), engagement_score < 0.02          *)
(* (Engagement/high), average_confidence < 0.8 (Audio Quality/medium),     *)
(* pacing_consistency < 0.7 (Pacing/low).  The returned list is the fired  *)
(* rules in the order words-per-minute, fluency, engagement, confidence,   *)
(* pacing consistency, one insight per rule at most, 5 at most.            *)
(***************************************************************************)
C12_RulesIndependent ==
    advised.called =>
        /\ advised.result.ok
        /\ LET m == AdvisedMetrics
               list == advised.result.value
               Fired(rules) == \E k \in 1..Len(list) : list[k].rule \in rules
               wpm == Get(m.speech_metrics, "words_per_minute", Zero)
           IN  /\ Fired({"slow", "fast"}) <=>
                      (RatLess(wpm, Whole(120)) \/ RatLess(Whole(200), wpm))
               /\ Fired({"fluency"}) <=>
                      RatLess(Get(m.fluency_metrics, "fluency_score", One),
                              Rat(85, 100))
               /\ Fired({"engagement"}) <=>
                      RatLess(Get(m.engagement_analysis, "engagement_score",
                                  Zero),
                              Rat(2, 100))
               /\ Fired({"confidence"}) <=>
                      RatLess(Get(m.confidence_metrics, "average_confidence",
                                  One),
                              Rat(8, 10))
               /\ Fired({"consistency"}) <=>
                      BelowSevenTenths(Get(m.pacing_analysis,
                                           "pacing_consistency",
                                           OneMinusSqrt(Zero)))
               /\ \A k \in 1..Len(list) : list[k] \in RuleTable
               /\ \A k \in 1..(Len(list) - 1) :
                      RuleOrder[list[k].rule] < RuleOrder[list[k + 1].rule]
               /\ Len(list) <= 5

\* the second and the fifth rule fired, the first, third and fourth did not
C12_Witness ==
    /\ advised.called
    /\ advised.result.ok
    /\ Len(advised.result.value) = 2
    /\ advised.result.value[1].rule = "fluency"
    /\ advised.result.value[2].rule = "consistency"
    /\ RatLeq(Rat(8, 10),
              AdvisedMetrics.confidence_metrics.average_confidence)

(***************************************************************************)
(* The candidates of the adjacent pairs of the segment list, the pairs     *)
(* that detect_topic_transitions() keeps, and the place of a kept pair in  *)
(* a descending order by strength that leaves pairs of equal strength in   *)
(* segment order.                                                          *)
(***************************************************************************)
Candidates == [k \in 1..(Len(segments) - 1) |-> TransitionAt(segments, k)]

KeptPairs(cand) == {k \in DOMAIN cand : cand[k].selected}

StrengthAt(cand, k) == cand[k].entry.transition_strength

PlaceOf(cand, k) ==
    1 + Cardinality({j \in KeptPairs(cand) :
                        RatLess(StrengthAt(cand, k), StrengthAt(cand, j))})
      + Cardinality({j \in KeptPairs(cand) :
                        j < k /\ StrengthAt(cand, j) = StrengthAt(cand, k)})

(***************************************************************************)
(* C13: detect_topic_transitions() returns its transitions sorted by       *)
(* transition_strength descending, transitions of equal strength in        *)
(* segment order; two runs on the same input return the same list; the     *)
(* report's topic_transitions is the first 3 entries of that list, none    *)
(* weaker than an entry left out.                                          *)
(***************************************************************************)
C13_RankedTransitions ==
    /\ detected # << >> =>
           LET cand == Candidates
               list == detected[1]
           IN  /\ \A k \in 1..(Len(list) - 1) :
                      RatLeq(list[k + 1].transition_strength,
                             list[k].transition_strength)
               /\ Len(list) = Cardinality(KeptPairs(cand))
               /\ \A k \in KeptPairs(cand) :
                      list[PlaceOf(cand, k)] = cand[k].entry
               /\ \A r \in 1..Len(detected) : detected[r] = list
    /\ (reported.called /\ reported.segments_given /\ detected # << >>) =>
           /\ reported.result.ok
           /\ LET all == detected[1]
                  top == reported.result.value.topic_transitions
              IN  /\ top = SubSeq(all, 1, Min({3, Len(all)}))
                  /\ \A k \in 1..Len(top) : \A j \in (Len(top) + 1)..Len(all) :
                         RatLeq(all[j].transition_strength,
                                top[k].transition_strength)

\* two runs and a report on 4 transitions of which the first in segment
\* order is weaker than a later one and two are equally strong
C13_Witness ==
    /\ Len(detected) = 2
    /\ Len(detected[1]) = 4
    /\ reported.called /\ reported.segments_given
    /\ Len(reported.result.value.topic_transitions) = 3
    /\ \E k \in KeptPairs(Candidates) :
           RatLess(StrengthAt(Candidates, 1), StrengthAt(Candidates, k))
    /\ \E j, k \in KeptPairs(Candidates) :
           j # k /\ StrengthAt(Candidates, j) = StrengthAt(Candidates, k)
    /\ RatLess(detected[1][4].transition_strength,
               detected[1][1].transition_strength)

\* the sub-reports computed from the transcript alone
TranscriptReports ==
    {"speech_metrics", "fluency_metrics", "linguistic_metrics",
     "confidence_metrics", "engagement_analysis"}

(***************************************************************************)
(* C14: for an analyzer constructed without segments or with an empty      *)
(* segment list, and for any list of fewer than 3 segments,                *)
(* calculate_pacing_analysis() returns the empty dict; for fewer than 2    *)
(* segments detect_topic_transitions() returns the empty list; the report  *)
(* is returned without raising, and its other sub-reports are those of     *)
(* every report returned for the same transcript with another segment      *)
(* list.                                                                   *)
(***************************************************************************)
C14_DegradesWithoutSegments ==
    reported.called =>
        LET segs == SegmentsData(reported.segments_given)
        IN  /\ Len(segs) < 3 =>
                   /\ reported.result.ok
                   /\ reported.result.value.pacing_analysis = EmptyDict
                   /\ \A other \in {<< >>, segments} :
                          LET o == generate_comprehensive_report(transcript,
                                                                 other)
                          IN  o.ok =>
                                  \A sub \in TranscriptReports :
                                      o.value[sub] = reported.result.value[sub]
            /\ Len(segs) < 2 =>
                   /\ reported.result.ok
                   /\ reported.result.value.topic_transitions = << >>

\* a list of 2 segments: no pacing analysis, but a topic transition
C14_Witness ==
    /\ reported.called
    /\ reported.segments_given
    /\ Len(segments) = 2
    /\ \E k \in 1..2 : segments[k].start < segments[k].end
    /\ reported.result.ok
    /\ reported.result.value.pacing_analysis = EmptyDict
    /\ reported.result.value.topic_transitions # << >>
    /\ reported.result.value.speech_metrics # EmptyDict

\* an entry of the transcript lacks start, end or text
MissingField == \E k \in 1..Len(transcript) : ~HasRequiredFields(transcript[k])

(***************************************************************************)
(* C15: for a transcript with an entry that lacks start, end or text,      *)
(* neither segment() nor the analyzer's constructor and                    *)
(* generate_comprehensive_report() return a result.                        *)
(***************************************************************************)
C15_MissingFieldFatal ==
    MissingField =>
        /\ ~Returned
        /\ reported.called => ~reported.result.ok

(***************************************************************************)
(* C16: a single-word transcript gives exactly one segment whose           *)
(* speech_rate is 1 / (word.end - word.start), or 0 when the word has no   *)
(* duration; every returned segment without duration has speech_rate 0 and *)
(* silence_ratio 0.                                                        *)
(***************************************************************************)
C16_ZeroDuration ==
    Returned =>
        /\ Len(transcript) = 1 =>
               /\ Len(segments) = 1
               /\ LET w == transcript[1]
                  IN  segments[1].speech_rate =
                          IF w.end - w.start = 0 THEN Zero
                          ELSE Rat(1, w.end - w.start)
        /\ \A k \in 1..Len(segments) :
               segments[k].end = segments[k].start =>
                   /\ segments[k].speech_rate = Zero
                   /\ segments[k].silence_ratio = Zero

\* a segment of two words without duration, next to a segment with one
C16_Witness ==
    /\ Returned
    /\ \E k \in 1..Len(segments) :
           /\ Len(runs[k]) >= 2
           /\ segments[k].end = segments[k].start
           /\ segments[k].speech_rate = Zero
    /\ \E k \in 1..Len(segments) :
           /\ segments[k].end > segments[k].start
           /\ segments[k].speech_rate # Zero

(***************************************************************************)
(* C17: for the transcript [{start 0, end 1, text hello, conf 0.9},        *)
(* {start 1.2, end 2.0, text world, conf 0.8}] and the default thresholds, *)
(* segment() returns exactly 1 segment with text "hello world", start 0,   *)
(* end 2.0, speech_rate 2/2.0 = 1.0 words per second, lexical_diversity    *)
(* 1.0, silence_ratio 0.2/2.0 = 0.1 and asr_confidence 0.85.               *)
(***************************************************************************)
C17_HelloWorld ==
    (Returned /\ transcript = <<Hello, World(12)>>) =>
        /\ Len(segments) = 1
        /\ segments[1].text =
               <<"h", "e", "l", "l", "o", " ", "w", "o", "r", "l", "d">>
        /\ segments[1].start = 0
        /\ segments[1].end = 2 * TenthsPerSecond
        /\ RatMul(segments[1].speech_rate, Whole(TenthsPerSecond)) = One
        /\ segments[1].lexical_diversity = One
        /\ segments[1].silence_ratio = Rat(1, 10)
        /\ segments[1].asr_confidence = Rat(85, 100)

C17_Witness ==
    /\ Returned
    /\ transcript = <<Hello, World(12)>>
    /\ max_len = 600
    /\ pause_thresh = 20
    /\ runs = <<transcript>>

(***************************************************************************)
(* The tokens of a text: the maximal runs of letters, digits and           *)
(* underscores, given by their first and last position.                    *)
(***************************************************************************)
TokenSpans(text) ==
    {sp \in (1..Len(text)) \X (1..Len(text)) :
        /\ sp[1] <= sp[2]
        /\ \A c \in sp[1]..sp[2] : IsWordChar(text[c])
        /\ (sp[1] = 1 \/ ~IsWordChar(text[sp[1] - 1]))
        /\ (sp[2] = Len(text) \/ ~IsWordChar(text[sp[2] + 1]))}

LowerToken(text, sp) == Lower(SubSeq(text, sp[1], sp[2]))

\* the words of the run are one token each, the same up to letter case
SameWordRepeated(r) ==
    /\ \A j \in 1..Len(r) : Cardinality(TokenSpans(r[j].text)) = 1
    /\ \A j \in 1..Len(r) :
           \A a \in TokenSpans(r[j].text), b \in TokenSpans(r[1].text) :
               LowerToken(r[j].text, a) = LowerToken(r[1].text, b)

(***************************************************************************)
(* C18: the lexical_diversity of a segment is the number of distinct       *)
(* lower-cased tokens of its text divided by the number of tokens; it lies *)
(* in [0, 1] and is 0 for a text without tokens; for a segment of the same *)
(* word n times, in any letter case and with any attached punctuation, it  *)
(* is 1/n.                                                                 *)
(***************************************************************************)
C18_LexicalDiversity ==
    Returned =>
        \A k \in 1..Len(segments) :
            LET r == runs[k]
                text == JoinSpace(TextsOf(r))
                spans == TokenSpans(text)
                d == segments[k].lexical_diversity
            IN  /\ spans = {} => d = Zero
                /\ spans # {} =>
                       d = Rat(Cardinality({LowerToken(text, sp) :
                                               sp \in spans}),
                               Cardinality(spans))
                /\ RatLeq(Zero, d) /\ RatLeq(d, One)
                /\ SameWordRepeated(r) => d = Rat(1, Len(r))

\* one word three times, in three spellings
C18_Witness ==
    /\ Returned
    /\ Len(segments) = 1
    /\ Len(runs[1]) = 3
    /\ SameWordRepeated(runs[1])
    /\ \A j, k \in 1..3 : j # k => runs[1][j].text # runs[1][k].text
    /\ \E j \in 1..3 : ~IsWordChar(runs[1][j].text[1])
    /\ segments[1].lexical_diversity = Rat(1, 3)

\* the pause fields of a speech sub-report
PauseFields(speech) ==
    [key \in {"pause_count", "long_pause_count", "average_pause_duration"}
              \cap Keys(speech) |-> speech[key]]

(***************************************************************************)
(* C19: whatever the order in which the words are delivered, the pause     *)
(* fields of the speech sub-report (pause_count, long_pause_count,         *)
(* average_pause_duration) are those of the transcript sorted by start.    *)
(***************************************************************************)
C19_OrderIndependent ==
    (reported.called /\ reported.result.ok) =>
        PauseFields(reported.result.value.speech_metrics)
            = PauseFields(calculate_speech_metrics(StableSorted(transcript)))

(***************************************************************************)
(* The adjacent pair k of the segment list, computed from the definitions  *)
(* of the metric: the gap in seconds, the overlap of the lower-cased word  *)
(* sets over the size of the smaller one, the strength.                    *)
(***************************************************************************)
WordSet(text) == SeqToSet(Split(Lower(text)))

PairGap(k) == segments[k + 1].start - segments[k].end

PairSimilarity(k) ==
    LET a == WordSet(segments[k].text)
        b == WordSet(segments[k + 1].text)
        smaller == IF Cardinality(a) <= Cardinality(b) THEN Cardinality(a)
                   ELSE Cardinality(b)
    IN  IF a = {} \/ b = {} THEN Zero
        ELSE Rat(Cardinality(a \cap b), smaller)

PairStrength(k) ==
    RatMax(Rat(PairGap(k), 5 * TicksPerSecond),
           RatSub(One, PairSimilarity(k)))

\* the entry e of a returned list is the candidate of pair k
IsCandidateOf(e, k) ==
    /\ e.timestamp = Rat(segments[k].end, TicksPerSecond)
    /\ e.time_gap = Rat(PairGap(k), TicksPerSecond)
    /\ e.lexical_similarity = PairSimilarity(k)
    /\ e.transition_strength = PairStrength(k)

(***************************************************************************)
(* C20 (as stated): for 2 or more segments the unsliced result of          *)
(* detect_topic_transitions() has a candidate for each adjacent pair,      *)
(* len(segments) - 1 in all, with transition_strength = max(time_gap /     *)
(* 5.0, 1 - similarity) and similarity = |intersection| / min(|A|, |B|).   *)
(***************************************************************************)
C20_CandidatePerPair ==
    (detected # << >> /\ Len(segments) >= 2) =>
        /\ Len(detected[1]) = Len(segments) - 1
        /\ \A k \in 1..(Len(segments) - 1) :
               \E j \in 1..Len(detected[1]) : IsCandidateOf(detected[1][j], k)

(***************************************************************************)
(* C20 (amended): the unsliced result of detect_topic_transitions() holds  *)
(* one candidate for each adjacent pair whose time_gap is > 3.0 s or whose *)
(* similarity is < 0.3, and nothing else, so at most len(segments) - 1     *)
(* entries; each has transition_strength = max(time_gap / 5.0, 1 -         *)
(* similarity) with similarity = |intersection| / min(|A|, |B|), 0 if      *)
(* either word set is empty.                                               *)
(***************************************************************************)
C20_KeptCandidates ==
    detected # << >> =>
        LET list == detected[1]
            kept == {k \in 1..(Len(segments) - 1) :
                        \/ PairGap(k) > 3 * TicksPerSecond
                        \/ RatLess(PairSimilarity(k), Rat(3, 10))}
        IN  /\ Len(list) = Cardinality(kept)
            /\ \A k \in kept :
                   \E j \in 1..Len(list) : IsCandidateOf(list[j], k)
            /\ \A j \in 1..Len(list) :
                   \E k \in kept : IsCandidateOf(list[j], k)

\* of 4 adjacent pairs one is kept for its gap alone, one for its low
\* similarity alone, and the others are dropped
C20_Witness ==
    /\ detected # << >>
    /\ Len(segments) = 5
    /\ Len(detected[1]) = 2
    /\ \E k \in 1..4 : PairGap(k) = 4 /\ PairSimilarity(k) = One
    /\ \E k \in 1..4 : PairGap(k) = 3 /\ PairSimilarity(k) = Rat(1, 4)
    /\ \E k \in 1..4 : PairGap(k) = 3 /\ PairSimilarity(k) = Rat(1, 2)

(***************************************************************************)
(* The pacing of the segment list, computed from the definition: the       *)
(* segments of positive duration, and for the k-th of them (k > 1) whether *)
(* its rate differs from the rate before by more than 30% of that rate.    *)
(***************************************************************************)
TimedSegments ==
    SelectSeq(segments, LAMBDA sg : sg.end - sg.start > 0)

WordCount(sg) == Len(Split(sg.text))

\* 10 * |w_k / d_k - w_j / d_j| > 3 * w_j / d_j, in whole numbers
ChangesPace(timed, k) ==
    LET w_k == WordCount(timed[k])
        d_k == timed[k].end - timed[k].start
        w_j == WordCount(timed[k - 1])
        d_j == timed[k - 1].end - timed[k - 1].start
    IN  w_j > 0 /\ 10 * Abs(w_k * d_j - w_j * d_k) > 3 * w_j * d_k

\* the change_magnitude at the k-th timed segment
ChangeMagnitude(timed, k) ==
    LET w_k == WordCount(timed[k])
        d_k == timed[k].end - timed[k].start
        w_j == WordCount(timed[k - 1])
        d_j == timed[k - 1].end - timed[k - 1].start
    IN  Rat(Abs(w_k * d_j - w_j * d_k), w_j * d_k)

\* the pacing sub-report of a report made with the segment list
PacingReported ==
    /\ reported.called
    /\ reported.segments_given
    /\ reported.result.ok
    /\ reported.result.value.pacing_analysis # EmptyDict

(***************************************************************************)
(* C21: in a pacing sub-report, significant_pace_changes counts the        *)
(* adjacent positive-duration segments whose rate differs by more than 30% *)
(* of the earlier rate, and pace_changes holds at most 5 of these changes, *)
(* the most significant ones: no flagged change left out has a larger      *)
(* change_magnitude than one that is listed.                               *)
(***************************************************************************)
C21_MostSignificantChanges ==
    PacingReported =>
        LET pacing == reported.result.value.pacing_analysis
            timed == TimedSegments
            flagged == {k \in 2..Len(timed) : ChangesPace(timed, k)}
            listed == {k \in flagged :
                          \E j \in 1..Len(pacing.pace_changes) :
                              /\ pacing.pace_changes[j].timestamp
                                   = Rat(timed[k].start, TicksPerSecond)
                              /\ pacing.pace_changes[j].change_magnitude
                                   = ChangeMagnitude(timed, k)}
        IN  /\ pacing.significant_pace_changes
                 = Whole(Cardinality(flagged))
            /\ Len(pacing.pace_changes) <= 5
            /\ Cardinality(listed) = Len(pacing.pace_changes)
            /\ \A k \in flagged \ listed : \A j \in listed :
                   RatLeq(ChangeMagnitude(timed, k),
                          ChangeMagnitude(timed, j))

\* the gaps between consecutive words of r that are silence
PositiveGaps(r) ==
    [j \in 1..(Len(r) - 1) |->
        IF r[j + 1].start > r[j].end THEN r[j + 1].start - r[j].end ELSE 0]

(***************************************************************************)
(* C22: for every segment built from words with end >= start in order of   *)
(* start, the positive gaps between consecutive words sum to at most the   *)
(* segment duration (last end minus first start), silence_ratio is that    *)
(* sum over the duration (0 for no duration) and lies in [0, 1], also when *)
(* words overlap or a later word ends before an earlier one.               *)
(***************************************************************************)
C22_SilenceRatioInUnit ==
    Returned =>
        \A k \in 1..Len(segments) :
            LET r == runs[k]
                duration == r[Len(r)].end - r[1].start
                silence == SumSeq(PositiveGaps(r))
                ratio == segments[k].silence_ratio
            IN  /\ 0 <= silence /\ silence <= duration
                /\ ratio = IF duration > 0 THEN Rat(silence, duration)
                           ELSE Zero
                /\ RatLeq(Zero, ratio) /\ RatLeq(ratio, One)

\* a segment of silence only, whose last word lies within the word before
C22_Witness ==
    /\ Returned
    /\ \E k \in 1..Len(segments) :
           LET r == runs[k]
           IN  /\ Len(r) = 3
               /\ r[2].start > r[1].end
               /\ r[3].start < r[2].end
               /\ r[3].end < r[2].end
               /\ segments[k].silence_ratio = One

\* the whole number held by a count of a report
CountOf(q) == q.num \div q.den

(***************************************************************************)
(* C23: in a report, fluency_score is max(0, 1 - (filler_word_count +      *)
(* repetition_count + false_start_count) / total_words) when total_words   *)
(* is positive and 0 when it is 0; it lies in [0, 1] and is 0 whenever the *)
(* three counts sum to total_words or more.                                *)
(***************************************************************************)
C23_FluencyScore ==
    (reported.called /\ reported.result.ok) =>
        LET fluency == reported.result.value.fluency_metrics
            total_words ==
                CountOf(reported.result.value.lecture_overview.total_words)
            disfluencies == CountOf(fluency.filler_word_count)
                                + CountOf(fluency.repetition_count)
                                + CountOf(fluency.false_start_count)
            score == fluency.fluency_score
        IN  /\ total_words = 0 => score = Zero
            /\ (total_words > 0 /\ disfluencies >= total_words)
                   => score = Zero
            /\ (total_words > 0 /\ disfluencies < total_words)
                   => score = Rat(total_words - disfluencies, total_words)
            /\ RatLeq(Zero, score) /\ RatLeq(score, One)

\* more disfluencies than words: a filler cut short, twice, is 2 fillers,
\* 1 repetition and 2 false starts in 2 words
C23_Witness ==
    /\ reported.called /\ reported.result.ok
    /\ LET fluency == reported.result.value.fluency_metrics
       IN  /\ reported.result.value.lecture_overview.total_words = Whole(2)
           /\ fluency.filler_word_count = Whole(2)
           /\ fluency.repetition_count = Whole(1)
           /\ fluency.false_start_count = Whole(2)
           /\ fluency.fluency_score = Zero

\* the positions of the transcript whose word carries a confidence
Rated == {k \in 1..Len(transcript) : "conf" \in DOMAIN transcript[k]}

\* the sum of the confidences, in tenths, of the words at the positions S
RECURSIVE ConfSum(_)
ConfSum(S) ==
    IF S = {} THEN 0
    ELSE LET k == CHOOSE x \in S : TRUE
         IN  transcript[k].conf + ConfSum(S \ {k})

(***************************************************************************)
(* C24: a report is returned whatever words carry a confidence.  With no   *)
(* confidence value its confidence sub-report is average_confidence 0 and  *)
(* low_confidence_segments 0; otherwise only the words that carry a value  *)
(* count: average_confidence is their mean, low_confidence_segments the    *)
(* number of them strictly below 0.7, low_confidence_ratio that number     *)
(* over the number of values, within [0, 1], min_confidence <=             *)
(* average_confidence <= max_confidence, and confidence_std is 0 for a     *)
(* single value.                                                           *)
(***************************************************************************)
C24_ConfidenceMetrics ==
    reported.called =>
        /\ reported.result.ok
        /\ LET conf == reported.result.value.confidence_metrics
               n == Cardinality(Rated)
               low == Cardinality({k \in Rated :
                                      10 * transcript[k].conf
                                          < 7 * ConfScale})
           IN  /\ n = 0 =>
                      conf = [average_confidence |-> Zero,
                              low_confidence_segments |-> Zero]
               /\ n > 0 =>
                      /\ conf.average_confidence
                           = Rat(ConfSum(Rated), ConfScale * n)
                      /\ conf.low_confidence_segments = Whole(low)
                      /\ conf.low_confidence_ratio = Rat(low, n)
                      /\ RatLeq(Zero, conf.low_confidence_ratio)
                      /\ RatLeq(conf.low_confidence_ratio, One)
                      /\ RatLeq(conf.min_confidence, conf.average_confidence)
                      /\ RatLeq(conf.average_confidence, conf.max_confidence)
                      /\ \A k \in Rated :
                             /\ RatLeq(conf.min_confidence,
                                       Rat(transcript[k].conf, ConfScale))
                             /\ RatLeq(Rat(transcript[k].conf, ConfScale),
                                       conf.max_confidence)
               /\ n = 1 => conf.confidence_std = Sqrt(Zero)

\* three words: one without a confidence, one at the threshold, one below
C24_Witness ==
    /\ reported.called /\ reported.result.ok
    /\ Len(transcript) = 3
    /\ Cardinality(Rated) = 2
    /\ {transcript[k].conf : k \in Rated} = {5, 7}
    /\ LET conf == reported.result.value.confidence_metrics
       IN  /\ conf.average_confidence = Rat(6, 10)
           /\ conf.low_confidence_segments = Whole(1)
           /\ conf.low_confidence_ratio = Rat(1, 2)

\* no word carries a confidence
C24_WitnessUnrated ==
    /\ reported.called /\ reported.result.ok
    /\ Len(transcript) = 2
    /\ Rated = {}

\* the confidences, in tenths, of the words of r that carry one
RatedConfs(r) ==
    LET with == SelectSeq(r, LAMBDA w : "conf" \in DOMAIN w)
    IN  [j \in 1..Len(with) |-> with[j].conf]

(***************************************************************************)
(* C25: the asr_confidence of a segment is the mean of the confidences of  *)
(* its words that carry one, and 0 when none of its words does; a word     *)
(* without a confidence does not lower the mean of the others.             *)
(***************************************************************************)
C25_MeanOfRatedWords ==
    Returned =>
        \A k \in 1..Len(segments) :
            LET confs == RatedConfs(runs[k])
            IN  segments[k].asr_confidence
                    = IF confs = << >> THEN Zero
                      ELSE Rat(SumSeq(confs), ConfScale * Len(confs))

C27_SegmentsNonEmpty ==
    [][/\ segments' # segments =>
              /\ current # << >>
              /\ segments' = Append(segments, make_segment(current))
              /\ runs' = Append(runs, current)
       /\ Len(runs') = Len(segments')
       /\ \A k \in 1..Len(runs') : Len(runs'[k]) >= 1
       /\ (pc' = "done" /\ transcript # << >>) =>
              /\ 1 <= Len(segments')
              /\ Len(segments') <= Len(transcript)
              /\ segments'[1].start
                   = Min({transcript[k].start : k \in 1..Len(transcript)})]_vars

\* three words delivered latest first, returned as two segments
C27_Witness ==
    /\ Returned
    /\ Len(transcript) = 3
    /\ transcript[1].start > transcript[3].start
    /\ Len(segments) = 2
    /\ Len(runs[1]) + Len(runs[2]) = 3

\* the insights emitted for a transcript without words and without segments
EmptyTranscriptInsights ==
    <<[category |-> "Pacing", severity |-> "medium", rule |-> "slow"],
      [category |-> "Fluency", severity |-> "medium", rule |-> "fluency"],
      [category |-> "Engagement", severity |-> "high",
       rule |-> "engagement"],
      [category |-> "Audio Quality", severity |-> "medium",
       rule |-> "confidence"]>>

(***************************************************************************)
(* C28: for an empty transcript with no segments get_actionable_insights() *)
(* returns exactly four insights, in this order: Pacing/medium (too slow), *)
(* Fluency/medium, Engagement/high, Audio Quality/medium; and whenever     *)
(* fewer than 3 segments are given, no pacing-consistency insight          *)
(* (Pacing/low) is emitted.                                                *)
(***************************************************************************)
C28_EmptyTranscriptInsights ==
    advised.called =>
        LET given == SegmentsData(advised.segments_given)
        IN  /\ (transcript = << >> /\ given = << >>) =>
                   /\ advised.result.ok
                   /\ advised.result.value = EmptyTranscriptInsights
            /\ (Len(given) < 3 /\ advised.result.ok) =>
                   \A k \in 1..Len(advised.result.value) :
                       /\ advised.result.value[k].rule # "consistency"
                       /\ ~(/\ advised.result.value[k].category = "Pacing"
                            /\ advised.result.value[k].severity = "low")

\* the insights of an analyzer made with no words and no segments
C28_Witness ==
    /\ advised.called
    /\ transcript = << >>
    /\ SegmentsData(advised.segments_given) = << >>
    /\ advised.result.ok
    /\ Len(advised.result.value) = 4

\* two segments of one second are given, of 1 and of 4 words
C28_WitnessTwoSegments ==
    /\ advised.called /\ advised.segments_given /\ advised.result.ok
    /\ Len(segments) = 2
    /\ Len(Split(segments[1].text)) = 1
    /\ Len(Split(segments[2].text)) = 4

(***************************************************************************)
(* C29: the life of analysisStatus.  A task is scheduled only after its    *)
(* request has set the status to 'processing'.  The last status update of  *)
(* a task that has ended is 'completed' or 'failed', so that the lecture   *)
(* is not left 'processing' by it.  'completed' is written only after the  *)
(* analysis result was saved, together with hasAnalysis = True; a result   *)
(* with an error, or any exception, leads to 'failed' and the task does    *)
(* not set hasAnalysis.                                                    *)
(***************************************************************************)
C29_StatusLifecycle ==
    \A k \in DOMAIN tasks :
        LET task == tasks[k]
        IN  /\ task.pc = "updated" =>
                   /\ lecture.analysisStatus = "processing"
                      \/ lecture.status_writer # k
                   /\ task.response = 0
            /\ task.pc = "finished" =>
                   /\ task.last_status \in {"completed", "failed"}
                   /\ lecture.status_writer = k
                          => lecture.analysisStatus # "processing"
            /\ task.last_status = "completed" =>
                   /\ task.saved
                   /\ task.set_has_analysis
                   /\ task.trouble = "none"
            /\ (task.pc = "finished" /\ task.trouble # "none") =>
                   /\ task.last_status = "failed"
                   /\ ~task.set_has_analysis

\* the statuses of the lectures that cover the topic, read from the notes:
\* negative terms first, then partial ones, then positive ones
StatusOfNotes ==
    [n \in CoverageNotes |->
        CASE n = <<"T", "h", "o", "r", "o", "u", "g", "h", "l", "y", " ",
                   "r", "u", "s", "h", "e", "d">> -> "struggling"
          [] n = <<"W", "e", "l", "l", " ", "c", "o", "v", "e", "r", "e",
                   "d">> -> "strong"
          [] OTHER -> "developing"]

LectureStatuses(lectures) ==
    {StatusOfNotes[lectures[k].notes] :
        k \in {j \in 1..Len(lectures) : lectures[j].covered}}

\* the status the claim gives to a topic whose lectures have these statuses
StatusByPriority(statuses) ==
    IF "struggling" \in statuses THEN "struggling"
    ELSE IF "developing" \in statuses THEN "developing"
    ELSE IF "strong" \in statuses THEN "strong"
    ELSE "not covered"

\* the topic enters the map by the syllabus or by an analysis, never by the
\* materials of a lecture
FoldedFromNotCovered ==
    \/ overview.has_syllabus
    \/ \A k \in 1..Len(overview.lectures) : ~overview.lectures[k].in_materials

(***************************************************************************)
(* C30: the status of a topic in the class overview, folded from 'not      *)
(* covered' over the lectures that cover it, depends on the statuses of    *)
(* these lectures and not on their order: it is 'struggling' if a lecture  *)
(* was struggling, else 'developing' if one was developing, else 'strong'  *)
(* if one was strong, else 'not covered' (for a theme of the syllabus; a   *)
(* topic that no lecture covers has no entry).  A lecture never changes a  *)
(* 'struggling' topic, and never turns a 'developing' topic 'strong'.      *)
(***************************************************************************)
C30_StatusFold ==
    [][(overview.called /\ overview'.called) =>
          /\ (overview.pc = "loop" /\ overview.entry.present) =>
                 /\ overview.entry.status = "struggling"
                        => overview'.entry.status = "struggling"
                 /\ overview.entry.status = "developing"
                        => overview'.entry.status # "strong"
          /\ (overview'.pc = "done" /\ FoldedFromNotCovered) =>
                 LET statuses == LectureStatuses(overview.lectures)
                 IN  /\ overview'.entry.present
                            => overview'.entry.status
                                   = StatusByPriority(statuses)
                     /\ ~overview'.entry.present
                            => statuses = {} /\ ~overview.has_syllabus
                     /\ overview'.topic.listed
                            => overview'.topic.status
                                   = StatusByPriority(statuses)]_vars

\* three lectures, strong, then developing, then strong again: developing
C30_Witness ==
    /\ overview.called
    /\ overview.pc = "done"
    /\ FoldedFromNotCovered
    /\ Len(overview.lectures) = 3
    /\ \A k \in 1..3 : overview.lectures[k].covered
    /\ StatusOfNotes[overview.lectures[1].notes] = "strong"
    /\ StatusOfNotes[overview.lectures[2].notes] = "developing"
    /\ StatusOfNotes[overview.lectures[3].notes] = "strong"
    /\ overview.entry.status = "developing"
    /\ overview.topic.listed

\* struggling in the first lecture, strong in the later ones: struggling
C30_WitnessSticky ==
    /\ overview.called
    /\ overview.pc = "done"
    /\ FoldedFromNotCovered
    /\ Len(overview.lectures) = 3
    /\ \A k \in 1..3 : overview.lectures[k].covered
    /\ StatusOfNotes[overview.lectures[1].notes] = "struggling"
    /\ StatusOfNotes[overview.lectures[2].notes] = "strong"
    /\ StatusOfNotes[overview.lectures[3].notes] = "strong"
    /\ overview.entry.status = "struggling"

====
